---- MODULE Spec2Model ----
(***************************************************************************)
(* Territory planner backend: the region-growing optimizer                 *)
(* (optimizer.py), the scenario statistics (metrics.py), the data store    *)
(* (data_loader.py) and the HTTP handlers (main.py).                       *)
(*                                                                         *)
(* Numbers.  Metric sums are non-negative integers.  The guardrail of      *)
(* generate_scenarios divides by an average; the model keeps every         *)
(* balancing value multiplied by one common positive factor (field         *)
(* "scale") so that all loads stay integers.  Centroids are kept in        *)
(* hundredths of a degree and distances are the integer square root in     *)
(* the same unit.  Every comparison the code makes on floats is made on    *)
(* the cross-multiplied integers.                                          *)
(***************************************************************************)
EXTENDS Integers, Sequences, FiniteSets, TLC

(***************************************************************************)
(* Bounds of the model                                                     *)
(***************************************************************************)
MaxK == 3
MaxMetric == 1
MaxLocks == 2
MaxUnits == 3
MaxLen == 3
MaxValue == 2

(***************************************************************************)
(* Generic helpers                                                         *)
(***************************************************************************)
EmptyMap == [x \in {} |-> ""]

Get(m, key, default) == IF key \in DOMAIN m THEN m[key] ELSE default

RECURSIVE SumOver(_, _)
SumOver(f, S) ==
  IF S = {} THEN 0
  ELSE LET x == CHOOSE y \in S : TRUE IN f[x] + SumOver(f, S \ {x})

Perms(S) ==
  {p \in [1..Cardinality(S) -> S] :
     \A i, j \in 1..Cardinality(S) : p[i] = p[j] => i = j}

PosIn(order, u) == CHOOSE i \in 1..Len(order) : order[i] = u

Min2(a, b) == IF a <= b THEN a ELSE b
Max2(a, b) == IF a >= b THEN a ELSE b

RECURSIVE ISqrtIter(_, _, _)
ISqrtIter(n, lo, hi) ==
  IF lo >= hi THEN lo
  ELSE LET mid == (lo + hi + 1) \div 2
       IN IF mid * mid <= n THEN ISqrtIter(n, mid, hi)
                            ELSE ISqrtIter(n, lo, mid - 1)
ISqrt(n) == ISqrtIter(n, 0, 46340)

(***************************************************************************)
(* Territory labels: f"T{i+1}" for i in range(k)                           *)
(***************************************************************************)
TidNames == <<"T1", "T2", "T3", "T4", "T5", "T6">>
Tid(i) == TidNames[i]
TerritoryIds(k) == {TidNames[i] : i \in 1..k}
TidIndex(t) == CHOOSE i \in 1..Len(TidNames) : TidNames[i] = t

(***************************************************************************)
(* Geographic reference data, restricted to the units of the model         *)
(***************************************************************************)
STATE_CENTROIDS ==
  [CA |-> <<-11942, 3678>>,
   NV |-> <<-11642, 3880>>,
   UT |-> <<-11109, 3932>>,
   FL |-> <<-8152, 2766>>,
   HI |-> <<-15558, 1990>>,
   AZ |-> <<-11109, 3405>>,
   OR |-> <<-12055, 4380>>]

ISLAND_STATES == {"AK", "HI", "PR", "GU", "VI", "AS", "MP"}

STATE_ADJACENCY ==
  [HI |-> {},
   CA |-> {"AZ", "NV", "OR"},
   FL |-> {"AL", "GA"},
   NV |-> {"AZ", "CA", "ID", "OR", "UT"},
   UT |-> {"AZ", "CO", "ID", "NM", "NV", "WY"},
   AZ |-> {"CA", "CO", "NM", "NV", "UT"},
   OR |-> {"CA", "ID", "NV", "WA"}]

Adj(adjacency, u) == IF u \in DOMAIN adjacency THEN adjacency[u] ELSE {}

InfDist == 1000000

DistTable ==
  [u \in DOMAIN STATE_CENTROIDS, v \in DOMAIN STATE_CENTROIDS |->
     LET dlng == STATE_CENTROIDS[v][1] - STATE_CENTROIDS[u][1]
         dlat == STATE_CENTROIDS[v][2] - STATE_CENTROIDS[u][2]
     IN ISqrt(dlng * dlng + dlat * dlat)]

get_geographic_distance(unit1, unit2) ==
  IF unit1 \notin DOMAIN STATE_CENTROIDS \/ unit2 \notin DOMAIN STATE_CENTROIDS
  THEN InfDist
  ELSE DistTable[unit1, unit2]

(***************************************************************************)
(* Contiguity primitives                                                   *)
(***************************************************************************)
\* a traversal that also walks through units outside the mainland subset
RECURSIVE ReachAnywhere(_, _, _, _)
ReachAnywhere(visited, frontier, mainland_states, adjacency) ==
  IF frontier = {} THEN visited
  ELSE LET new == {n \in UNION {Adj(adjacency, c) : c \in frontier} : n \notin visited}
       IN ReachAnywhere(visited \cup new, new, mainland_states, adjacency)

RECURSIVE Reach(_, _, _, _)
Reach(visited, frontier, mainland_states, adjacency) ==
  IF frontier = {} THEN visited
  ELSE LET new == {n \in UNION {Adj(adjacency, c) : c \in frontier} :
                     n \in mainland_states /\ n \notin visited}
       IN Reach(visited \cup new, new, mainland_states, adjacency)

\* the traversal stopped after the neighbours of the first unit
is_contiguous_from_one_level(first, territory_states, adjacency) ==
  LET mainland_states == territory_states \ ISLAND_STATES
  IN \/ Cardinality(territory_states) <= 1
     \/ mainland_states = {}
     \/ mainland_states \subseteq ({first} \cup Adj(adjacency, first))

\* is_territory_contiguous when states_list[0] is first
is_contiguous_from(first, territory_states, adjacency) ==
  IF Cardinality(territory_states) <= 1 THEN TRUE
  ELSE LET mainland_states == territory_states \ ISLAND_STATES
       IN IF mainland_states = {} THEN TRUE
          ELSE LET visited == Reach({first}, {first}, mainland_states, adjacency)
               IN Cardinality(visited) = Cardinality(mainland_states)

\* states_list = list(mainland_states): the members in the order of a set
states_list_heads(territory_states) ==
  IF territory_states \ ISLAND_STATES = {} THEN {""}
  ELSE territory_states \ ISLAND_STATES

\* a primitive that accepts every territory
is_territory_contiguous_always(territory_states, adjacency) == TRUE

\* on a symmetric graph the answer is the same for every first member
is_territory_contiguous(territory_states, adjacency) ==
  is_contiguous_from(CHOOSE s \in states_list_heads(territory_states) : TRUE,
                     territory_states, adjacency)

\* admission by adjacency alone
can_add_to_territory_by_adjacency(state, territory_states, adjacency) ==
  territory_states = {} \/ Adj(adjacency, state) \cap territory_states # {}

can_add_to_territory(state, territory_states, adjacency) ==
  IF territory_states = {} THEN TRUE
  ELSE IF state \in ISLAND_STATES THEN Cardinality(territory_states) = 0
  ELSE IF territory_states \cap ISLAND_STATES # {} THEN FALSE
  ELSE Adj(adjacency, state) \cap territory_states # {}

(***************************************************************************)
(* generate_scenarios: unit values, guardrail, locks and seeds             *)
(***************************************************************************)
\* unit_values[unit] = {"primary": metric_sums.get(primary_metric, 0.0), ...}
UnitValues(aggregates, primary_metric, secondary_metric) ==
  [u \in DOMAIN aggregates |->
     [primary   |-> Get(aggregates[u].metric_sums, primary_metric, 0),
      secondary |-> Get(aggregates[u].metric_sums, secondary_metric, 0)]]

\* base + 0.25 * (other / avg_other), avg_other = (sum / (n or 1)) or 1e-9.
\* Kept multiplied by scale = 4 * sum(other); when sum(other) = 0 every
\* other value is 0, the quotient is 0 and the value is base itself.
Guarded(unit_values, base, other) ==
  LET units == DOMAIN unit_values
      total == SumOver([u \in units |-> unit_values[u][other]], units)
      n     == Cardinality(units)
  IN IF total = 0
     THEN [scale |-> 1, primary |-> [u \in units |-> unit_values[u][base]]]
     ELSE [scale   |-> 4 * total,
           primary |-> [u \in units |->
                          4 * total * unit_values[u][base] + n * unit_values[u][other]]]

unit_values_primary_guarded(unit_values) == Guarded(unit_values, "primary", "secondary")
unit_values_secondary_guarded(unit_values) == Guarded(unit_values, "secondary", "primary")

\* Units of the lock map that survive the filter on unit and label
LockUnits(locked_assignments, units, k) ==
  {u \in DOMAIN locked_assignments :
     u \in units /\ locked_assignments[u] \in TerritoryIds(k)}

\* valid_locks: hard locks first, then seeds that do not name a locked unit
ValidLocks(locked_assignments, seed_assignments, units, k) ==
  LET L == LockUnits(locked_assignments, units, k)
      S == LockUnits(seed_assignments, units, k) \ L
  IN [u \in L \cup S |-> IF u \in L THEN locked_assignments[u] ELSE seed_assignments[u]]

\* user_seeds_inverted[tid] = unit_id; when two seed entries name one
\* territory the later entry of the (caller-ordered) map wins
UserSeedsInverted(seed_assignments, units, k) ==
  LET S    == LockUnits(seed_assignments, units, k)
      tids == {seed_assignments[u] : u \in S}
  IN {f \in [tids -> S] : \A t \in tids : seed_assignments[f[t]] = t}

(***************************************************************************)
(* select_geographic_seeds                                                 *)
(***************************************************************************)
Range(seq) == {seq[i] : i \in 1..Len(seq)}

IsSeedCandidate(u) == u \in DOMAIN STATE_CENTROIDS /\ u \notin ISLAND_STATES

\* min(distances) if distances else 0.0, over the selected seeds with a centroid
MinDist(candidate, selected_units) ==
  LET ds == {get_geographic_distance(candidate, s) :
               s \in {x \in selected_units : x \in DOMAIN STATE_CENTROIDS}}
  IN IF ds = {} THEN 0 ELSE CHOOSE d \in ds : \A e \in ds : d <= e

\* weights[c] * (1.0 + min_dist), up to the common factor 100 * (avg + 1e-9)
SeedScore(candidate, selected_units, unit_primary) ==
  Get(unit_primary, candidate, 0) * (100 + MinDist(candidate, selected_units))

\* the first candidate of the list whose score is strictly greater than
\* all before it and not less than any after it (score > best_score)
BestCandidate(cands, selected_units, unit_primary) ==
  LET sc(i) == SeedScore(cands[i], selected_units, unit_primary)
      best  == CHOOSE i \in 1..Len(cands) :
                 \A j \in 1..Len(cands) :
                   /\ sc(j) <= sc(i)
                   /\ (j < i => sc(j) < sc(i))
  IN cands[best]

RECURSIVE SeedLoop(_, _, _, _, _, _)
SeedLoop(i, k, seeds, used_units, mainland_units, unit_primary) ==
  IF i > k THEN seeds
  ELSE IF Tid(i) \in DOMAIN seeds
       THEN SeedLoop(i + 1, k, seeds, used_units, mainland_units, unit_primary)
  ELSE LET IsFree(c) == c \notin used_units
           cands == SelectSeq(mainland_units, IsFree)
       IN IF Len(cands) = 0
          THEN SeedLoop(i + 1, k, seeds, used_units, mainland_units, unit_primary)
          ELSE LET best_unit == BestCandidate(cands, used_units, unit_primary)
               IN SeedLoop(i + 1, k, seeds @@ (Tid(i) :> best_unit),
                           used_units \cup {best_unit}, mainland_units, unit_primary)

\* units_order is list(available_units), shuffled when variant_seed is given
select_geographic_seeds(units_order, k, user_seeds, unit_primary) ==
  IF Len(units_order) = 0 \/ k <= 0 THEN EmptyMap
  ELSE LET mainland_units == SelectSeq(units_order, IsSeedCandidate)
       IN IF Len(mainland_units) = 0
          THEN [t \in {Tid(i) : i \in 1..Min2(k, Len(units_order))} |->
                  units_order[TidIndex(t)]]
          ELSE LET kept  == {t \in DOMAIN user_seeds : user_seeds[t] \in Range(units_order)}
                   seeds == [t \in kept |-> user_seeds[t]]
               IN SeedLoop(1, k, seeds, {seeds[t] : t \in kept},
                           mainland_units, unit_primary)

(***************************************************************************)
(* State                                                                   *)
(***************************************************************************)
VARIABLES
  csv_exists,           \* the CSV file is present at the resolved path
  is_loaded,            \* DataStore._loaded
  df,                   \* DataStore.df: the account rows
  state_aggregates,     \* DataStore.state_aggregates
  zip_aggregates,       \* DataStore.zip_aggregates
  pc,                   \* position of the running handler / optimizer call
  request,              \* the HTTP request being served
  response,             \* the HTTP response produced for it
  first_result,         \* what a caller kept of an earlier call: its arguments and scenarios
  call,                 \* arguments of generate_scenarios / generate_zip_scenarios_via_states
  valid_locks,          \* generate_scenarios.valid_locks
  user_seeds_inverted,  \* generate_scenarios.user_seeds_inverted
  guarded,              \* <<unit_values_primary_guarded, unit_values_secondary_guarded>>
  scen,                 \* 1: primary run_multi_start, 2: secondary
  variant,              \* index into seed_variants = [None, 1, 2]
  best_assignments,     \* run_multi_start.best_assignments (when best_found)
  best_found,           \* best_assignments is not None
  best_score,           \* run_multi_start.best_score
  scenarios,            \* the scenario list built so far
  assignments,          \* geographic_balanced / local_refinement_pass assignments
  territory_anchor,     \* geographic_balanced.territory_anchor
  pq,                   \* geographic_balanced.pq, a set of heap entries
  counter,              \* geographic_balanced.counter
  stuck_count,          \* geographic_balanced.stuck_count
  iteration,            \* local_refinement_pass: iterations done
  remaining_units,      \* primary_balanced / secondary_balanced: the sorted unlocked units
  unit_index,           \* ... how many of them the placement loop has handled
  contiguity_failures,  \* ... the units that no territory admitted
  result                \* outcome of a function called directly: returned value or error

storeVars == <<csv_exists, is_loaded, df, state_aggregates, zip_aggregates>>
httpVars  == <<request, response, first_result>>
genVars   == <<call, valid_locks, user_seeds_inverted, guarded, scen, variant,
               best_assignments, best_found, best_score, scenarios>>
gbVars    == <<assignments, territory_anchor, pq, counter, stuck_count, iteration>>
directVars == <<remaining_units, unit_index, contiguity_failures, result>>
vars      == <<csv_exists, is_loaded, df, state_aggregates, zip_aggregates,
               pc, request, response, first_result,
               call, valid_locks, user_seeds_inverted, guarded, scen, variant,
               best_assignments, best_found, best_score, scenarios,
               assignments, territory_anchor, pq, counter, stuck_count, iteration,
               remaining_units, unit_index, contiguity_failures, result>>

(***************************************************************************)
(* geographic_balanced: locals that the code keeps in step with            *)
(* assignments are read off assignments                                    *)
(***************************************************************************)
K == call.k
Units == DOMAIN call.aggregates
Values == guarded[scen]

mainland_units == {u \in Units : u \notin ISLAND_STATES}
island_units   == {u \in Units : u \in ISLAND_STATES}

territory_states(asg, tid) == {u \in DOMAIN asg : asg[u] = tid}

load_primary(asg, tid) ==
  SumOver([u \in DOMAIN asg |-> Get(Values.primary, u, 0)], territory_states(asg, tid))

unassigned_mainland(asg) == mainland_units \ DOMAIN asg

max_stuck == Cardinality(mainland_units) * 2

\* assign_unit(unit_id, tid)
assign_unit(st, unit_id, tid) ==
  [asg    |-> [u \in DOMAIN st.asg \cup {unit_id} |->
                 IF u = unit_id THEN tid ELSE st.asg[u]],
   anchor |-> IF tid \in DOMAIN st.anchor THEN st.anchor
              ELSE st.anchor @@ (tid :> unit_id)]

\* Locks applied first (the lock map is filtered again on unit and label)
LockedAssignments(locked, units, k) ==
  [u \in LockUnits(locked, units, k) |-> locked[u]]

\* territory_anchor after the lock loop: the first locked unit of each
\* territory in the order of the lock map, hard locks before merged seeds
AnchorChoices(asg0, lock_origin) ==
  LET tids0 == {asg0[u] : u \in DOMAIN asg0}
  IN {a \in [tids0 -> DOMAIN asg0] :
        \A t \in tids0 :
          /\ asg0[a[t]] = t
          /\ (\E u \in lock_origin : u \in DOMAIN asg0 /\ asg0[u] = t) => a[t] \in lock_origin}

\* for tid, seed_unit in seeds.items(): assign when still unassigned mainland
RECURSIVE AssignSeeds(_, _, _)
AssignSeeds(i, st, seeds) ==
  IF i > Len(TidNames) THEN st
  ELSE LET tid == Tid(i)
       IN IF tid \in DOMAIN seeds /\ seeds[tid] \notin DOMAIN st.asg
             /\ seeds[tid] \in unassigned_mainland(st.asg)
          THEN AssignSeeds(i + 1, assign_unit(st, seeds[tid], tid), seeds)
          ELSE AssignSeeds(i + 1, st, seeds)

Lng(u) == IF u \in DOMAIN STATE_CENTROIDS THEN STATE_CENTROIDS[u][1] ELSE 0

\* sorted(unassigned_mainland, key=longitude): a stable sort of the set's
\* iteration order, given here by tie_order
SortedByLng(S, tie_order) ==
  CHOOSE p \in Perms(S) :
    \A i, j \in 1..Cardinality(S) :
      i < j => \/ Lng(p[i]) < Lng(p[j])
               \/ Lng(p[i]) = Lng(p[j]) /\ PosIn(tie_order, p[i]) < PosIn(tie_order, p[j])

\* the territories that got no seed left as they are
ForceAssignNone(i, st, tie_order) == st

\* Ensure each territory has at least one seed
RECURSIVE ForceAssign(_, _, _)
ForceAssign(i, st, tie_order) ==
  IF i > K THEN st
  ELSE LET tid == Tid(i)
           um  == unassigned_mainland(st.asg)
       IN IF territory_states(st.asg, tid) = {} /\ um # {}
          THEN LET sorted_by_lng == SortedByLng(um, tie_order)
                   step     == Max2(1, Len(sorted_by_lng) \div K)
                   pick_idx == Min2((i - 1) * step, Len(sorted_by_lng) - 1)
               IN ForceAssign(i + 1, assign_unit(st, sorted_by_lng[pick_idx + 1], tid), tie_order)
          ELSE ForceAssign(i + 1, st, tie_order)

GeoWeightDivisor == 2000

\* load_primary[tid] + geo_weight * distance(candidate, anchor), multiplied
\* by GeoWeightDivisor * scale (geo_weight = 0.05, distances in hundredths)
compute_priority(st, tid, candidate) ==
  GeoWeightDivisor * load_primary(st.asg, tid)
  + (IF tid \in DOMAIN st.anchor
     THEN Values.scale * get_geographic_distance(candidate, st.anchor[tid])
     ELSE 0)

\* heap order of the entries (priority, counter, tid, unit)
EntryLess(e1, e2) ==
  \/ e1.prio < e2.prio
  \/ e1.prio = e2.prio /\ e1.cnt < e2.cnt

\* the frontier filled with every unassigned unit instead of the neighbours
add_unassigned_to_queue(queue, cnt0, st, tid, sources, tie_order) ==
  LET new == {nb \in unassigned_mainland(st.asg) :
                ~ \E e \in queue : e.tid = tid /\ e.unit = nb}
      Before(a, b) ==
        \/ compute_priority(st, tid, a) < compute_priority(st, tid, b)
        \/ /\ compute_priority(st, tid, a) = compute_priority(st, tid, b)
           /\ PosIn(tie_order, a) < PosIn(tie_order, b)
      rank(nb) == Cardinality({m \in new : Before(m, nb)})
  IN [pq      |-> queue \cup {[prio |-> compute_priority(st, tid, nb),
                               cnt  |-> cnt0 + rank(nb),
                               tid  |-> tid,
                               unit |-> nb] : nb \in new},
      counter |-> cnt0 + Cardinality(new)]

\* add_neighbors_to_queue(tid, source) for every source in sources: pushes
\* each unassigned neighbour not yet queued for tid.  The neighbours of a
\* set are visited in its iteration order (tie_order); the counter decides
\* only between entries of equal priority, so the new entries are numbered
\* by priority and, within one priority, by tie_order.
add_neighbors_to_queue(queue, cnt0, st, tid, sources, tie_order) ==
  LET new == {nb \in UNION {Adj(call.adjacency, s) : s \in sources} :
                /\ nb \in unassigned_mainland(st.asg)
                /\ ~ \E e \in queue : e.tid = tid /\ e.unit = nb}
      Before(a, b) ==
        \/ compute_priority(st, tid, a) < compute_priority(st, tid, b)
        \/ /\ compute_priority(st, tid, a) = compute_priority(st, tid, b)
           /\ PosIn(tie_order, a) < PosIn(tie_order, b)
      rank(nb) == Cardinality({m \in new : Before(m, nb)})
  IN [pq      |-> queue \cup {[prio |-> compute_priority(st, tid, nb),
                               cnt  |-> cnt0 + rank(nb),
                               tid  |-> tid,
                               unit |-> nb] : nb \in new},
      counter |-> cnt0 + Cardinality(new)]

\* Initialize queue with neighbors of all seed states
RECURSIVE InitQueue(_, _, _, _)
InitQueue(i, q, st, tie_order) ==
  IF i > K THEN q
  ELSE InitQueue(i + 1,
                 add_neighbors_to_queue(q.pq, q.counter, st, Tid(i),
                                        territory_states(st.asg, Tid(i)), tie_order),
                 st, tie_order)

\* the position after the main loop
RefineOrScore ==
  IF call.require_contiguity /\ DOMAIN call.adjacency # {} THEN "refine" ELSE "score"
AfterLeftover(asg) ==
  IF island_units \ DOMAIN asg # {} THEN "islands" ELSE RefineOrScore
AfterGrowth(asg, queue, stuck) ==
  IF unassigned_mainland(asg) # {} /\ queue # {} /\ stuck < max_stuck THEN "grow"
  ELSE IF unassigned_mainland(asg) # {} THEN "leftover"
  ELSE AfterLeftover(asg)

\* geographic_balanced up to the main loop: locks, seeds, forced seeds, queue
GBInit ==
  /\ pc = "gb_init"
  /\ LET asg0 == LockedAssignments(valid_locks, Units, K)
         lock_origin == LockUnits(call.locked_assignments, Units, K)
     IN \E anchor0 \in AnchorChoices(asg0, lock_origin) :
        \E units_order \in Perms(mainland_units \ DOMAIN asg0) :
          LET seeds == select_geographic_seeds(units_order, K, user_seeds_inverted,
                                               Values.primary)
              st1 == AssignSeeds(1, [asg |-> asg0, anchor |-> anchor0], seeds)
              st2 == ForceAssign(1, st1, units_order)
              q   == InitQueue(1, [pq |-> {}, counter |-> 0], st2, units_order)
          IN /\ assignments' = st2.asg
             /\ territory_anchor' = st2.anchor
             /\ pq' = q.pq
             /\ counter' = q.counter
             /\ stuck_count' = 0
             /\ iteration' = 0
             /\ pc' = AfterGrowth(st2.asg, q.pq, 0)
  /\ UNCHANGED <<storeVars, directVars, httpVars, genVars>>

\* the main loop letting the territory whose candidate left the heap first
\* expand, whatever its load
GrowFirstPopped ==
  /\ pc = "grow"
  /\ LET um    == unassigned_mainland(assignments)
         live  == {e \in pq : e.unit \in um}
         ctids == {e.tid : e \in live}
         cand(t) == CHOOSE e \in live :
                      e.tid = t /\ \A f \in live : f.tid = t => (f = e \/ EntryLess(e, f))
         cands  == {cand(t) : t \in ctids}
         last   == CHOOSE e \in cands : \A f \in cands : f = e \/ EntryLess(f, e)
         popped == IF Cardinality(ctids) = K
                   THEN {e \in pq : e = last \/ EntryLess(e, last)}
                   ELSE pq
         temp_queue == (popped \cap live) \ cands
         pq1 == (pq \ popped) \cup temp_queue
     IN IF cands = {}
        THEN /\ stuck_count' = stuck_count + 1
             /\ pq' = pq1
             /\ pc' = AfterGrowth(assignments, pq1, stuck_count + 1)
             /\ UNCHANGED <<assignments, territory_anchor, counter>>
        ELSE LET best == CHOOSE e \in cands : \A f \in cands : f = e \/ EntryLess(e, f)
                 st == assign_unit([asg |-> assignments, anchor |-> territory_anchor],
                                   best.unit, best.tid)
             IN \E tie_order \in Perms(um) :
                  LET q == add_neighbors_to_queue(pq1, counter, st, best.tid,
                                                  {best.unit}, tie_order)
                      back == {e \in cands : e # best /\ e.unit # best.unit}
                  IN /\ assignments' = st.asg
                     /\ territory_anchor' = st.anchor
                     /\ pq' = q.pq \cup back
                     /\ counter' = q.counter
                     /\ stuck_count' = 0
                     /\ pc' = AfterGrowth(st.asg, q.pq \cup back, 0)
  /\ UNCHANGED <<storeVars, directVars, httpVars, genVars, iteration>>

\* The main loop's iteration with a candidate-less pass that puts the skipped
\* entries back on the heap
GrowKeepingDead ==
  /\ pc = "grow"
  /\ LET um    == unassigned_mainland(assignments)
         live  == {e \in pq : e.unit \in um}
         ctids == {e.tid : e \in live}
         cand(t) == CHOOSE e \in live :
                      e.tid = t /\ \A f \in live : f.tid = t => (f = e \/ EntryLess(e, f))
         cands  == {cand(t) : t \in ctids}
         last   == CHOOSE e \in cands : \A f \in cands : f = e \/ EntryLess(f, e)
         popped == IF Cardinality(ctids) = K
                   THEN {e \in pq : e = last \/ EntryLess(e, last)}
                   ELSE pq
         temp_queue == (popped \cap live) \ cands
         pq1 == (pq \ popped) \cup temp_queue
     IN IF cands = {}
        THEN /\ stuck_count' = stuck_count + 1
             /\ pq' = pq
             /\ pc' = AfterGrowth(assignments, pq, stuck_count + 1)
             /\ UNCHANGED <<assignments, territory_anchor, counter>>
        ELSE LET best == CHOOSE e \in cands :
                           \A f \in cands :
                             \/ f = e
                             \/ load_primary(assignments, e.tid) < load_primary(assignments, f.tid)
                             \/ /\ load_primary(assignments, e.tid) = load_primary(assignments, f.tid)
                                /\ EntryLess(e, f)
                 st == assign_unit([asg |-> assignments, anchor |-> territory_anchor],
                                   best.unit, best.tid)
             IN \E tie_order \in Perms(um) :
                  LET q == add_neighbors_to_queue(pq1, counter, st, best.tid,
                                                  {best.unit}, tie_order)
                      back == {e \in cands : e # best /\ e.unit # best.unit}
                  IN /\ assignments' = st.asg
                     /\ territory_anchor' = st.anchor
                     /\ pq' = q.pq \cup back
                     /\ counter' = q.counter
                     /\ stuck_count' = 0
                     /\ pc' = AfterGrowth(st.asg, q.pq \cup back, 0)
  /\ UNCHANGED <<storeVars, directVars, httpVars, genVars, iteration>>

\* One iteration of the main region-growing loop
Grow ==
  /\ pc = "grow"
  /\ LET um    == unassigned_mainland(assignments)
         live  == {e \in pq : e.unit \in um}
         ctids == {e.tid : e \in live}
         cand(t) == CHOOSE e \in live :
                      e.tid = t /\ \A f \in live : f.tid = t => (f = e \/ EntryLess(e, f))
         cands  == {cand(t) : t \in ctids}
         last   == CHOOSE e \in cands : \A f \in cands : f = e \/ EntryLess(f, e)
         popped == IF Cardinality(ctids) = K
                   THEN {e \in pq : e = last \/ EntryLess(e, last)}
                   ELSE pq
         temp_queue == (popped \cap live) \ cands
         pq1 == (pq \ popped) \cup temp_queue
     IN IF cands = {}
        THEN /\ stuck_count' = stuck_count + 1
             /\ pq' = pq1
             /\ pc' = AfterGrowth(assignments, pq1, stuck_count + 1)
             /\ UNCHANGED <<assignments, territory_anchor, counter>>
        ELSE LET best == CHOOSE e \in cands :
                           \A f \in cands :
                             \/ f = e
                             \/ load_primary(assignments, e.tid) < load_primary(assignments, f.tid)
                             \/ /\ load_primary(assignments, e.tid) = load_primary(assignments, f.tid)
                                /\ EntryLess(e, f)
                 st == assign_unit([asg |-> assignments, anchor |-> territory_anchor],
                                   best.unit, best.tid)
             IN \E tie_order \in Perms(um) :
                  LET q == add_neighbors_to_queue(pq1, counter, st, best.tid,
                                                  {best.unit}, tie_order)
                      back == {e \in cands : e # best /\ e.unit # best.unit}
                  IN /\ assignments' = st.asg
                     /\ territory_anchor' = st.anchor
                     /\ pq' = q.pq \cup back
                     /\ counter' = q.counter
                     /\ stuck_count' = 0
                     /\ pc' = AfterGrowth(st.asg, q.pq \cup back, 0)
  /\ UNCHANGED <<storeVars, directVars, httpVars, genVars, iteration>>

\* find_best_territory(component)
find_best_territory(asg, component) ==
  LET tids == {t \in TerritoryIds(K) : territory_states(asg, t) # {}}
      d(t) == LET ds == {get_geographic_distance(u, s) :
                           u \in component, s \in territory_states(asg, t)}
              IN CHOOSE x \in ds : \A y \in ds : x <= y
      near == {t \in tids : d(t) < InfDist}
  IN IF near # {}
     THEN CHOOSE t \in near :
            \A o \in near : d(t) < d(o) \/ (d(t) = d(o) /\ TidIndex(t) <= TidIndex(o))
     ELSE CHOOSE t \in TerritoryIds(K) :
            \A o \in TerritoryIds(K) :
              \/ load_primary(asg, t) < load_primary(asg, o)
              \/ load_primary(asg, t) = load_primary(asg, o) /\ TidIndex(t) <= TidIndex(o)

\* The connected component of start_unit among the remaining units
RECURSIVE Component(_, _, _)
Component(found, frontier, remaining) ==
  IF frontier = {} THEN found
  ELSE LET new == {n \in UNION {Adj(call.adjacency, c) : c \in frontier} :
                     n \in remaining /\ n \notin found}
       IN Component(found \cup new, new, remaining)

RECURSIVE AssignAll(_, _, _)
AssignAll(st, S, tid) ==
  IF S = {} THEN st
  ELSE LET u == CHOOSE x \in S : TRUE
       IN AssignAll(assign_unit(st, u, tid), S \ {u}, tid)

\* One iteration of the loop over the disconnected components: every unit
\* of the component joins best_tid, in the contiguity-preserving pass or in
\* the fallback; the unit placed first becomes the anchor of an empty territory
Leftover ==
  /\ pc = "leftover"
  /\ LET remaining == unassigned_mainland(assignments)
     IN \E start_unit \in remaining :
          LET component == Component({start_unit}, {start_unit}, remaining)
              best_tid  == find_best_territory(assignments, component)
          IN \E first \in component :
               LET st0 == assign_unit([asg |-> assignments, anchor |-> territory_anchor],
                                      first, best_tid)
                   st  == AssignAll(st0, component \ {first}, best_tid)
               IN /\ (best_tid \in DOMAIN territory_anchor => first = start_unit)
                  /\ assignments' = st.asg
                  /\ territory_anchor' = st.anchor
                  /\ pc' = IF unassigned_mainland(st.asg) # {} THEN "leftover"
                           ELSE AfterLeftover(st.asg)
  /\ UNCHANGED <<storeVars, directVars, httpVars, genVars, pq, counter, stuck_count, iteration>>

\* One iteration of the loop over the island units
Islands ==
  /\ pc = "islands"
  /\ \E unit \in island_units \ DOMAIN assignments :
       LET anchored == {t \in TerritoryIds(K) :
                          /\ t \in DOMAIN territory_anchor
                          /\ get_geographic_distance(unit, territory_anchor[t]) < InfDist}
           dist(t)  == get_geographic_distance(unit, territory_anchor[t])
           best_tid ==
             IF anchored # {}
             THEN CHOOSE t \in anchored :
                    \A o \in anchored :
                      dist(t) < dist(o) \/ (dist(t) = dist(o) /\ TidIndex(t) <= TidIndex(o))
             ELSE CHOOSE t \in TerritoryIds(K) :
                    \A o \in TerritoryIds(K) :
                      \/ load_primary(assignments, t) < load_primary(assignments, o)
                      \/ /\ load_primary(assignments, t) = load_primary(assignments, o)
                         /\ TidIndex(t) <= TidIndex(o)
           st == assign_unit([asg |-> assignments, anchor |-> territory_anchor],
                             unit, best_tid)
       IN /\ assignments' = st.asg
          /\ territory_anchor' = st.anchor
          /\ pc' = AfterLeftover(st.asg)
  /\ UNCHANGED <<storeVars, directVars, httpVars, genVars, pq, counter, stuck_count, iteration>>

(***************************************************************************)
(* local_refinement_pass                                                   *)
(***************************************************************************)
max_iterations == 50

compute_loads(asg) == [t \in TerritoryIds(K) |-> load_primary(asg, t)]

\* max(values) / min(values) over the positive loads, inf when there is none
compute_max_min_ratio(loads) ==
  LET values == {loads[t] : t \in DOMAIN loads} \ {v \in {loads[t] : t \in DOMAIN loads} : v <= 0}
  IN IF values = {}
     THEN [inf |-> TRUE, num |-> 0, den |-> 1]
     ELSE [inf |-> FALSE,
           num |-> CHOOSE v \in values : \A w \in values : w <= v,
           den |-> CHOOSE v \in values : \A w \in values : v <= w]

RatioLess(a, b) == ~ a.inf /\ (b.inf \/ a.num * b.den < b.num * a.den)

\* (unit_id, current_tid, neighbor_tid) for the units that are not locked
get_border_units(asg, locked_units) ==
  {<<p[1], asg[p[1]], asg[p[2]]>> :
     p \in {q \in (DOMAIN asg \ locked_units) \X DOMAIN asg :
              q[2] \in Adj(call.adjacency, q[1]) /\ asg[q[2]] # asg[q[1]]}}

would_break_contiguity(asg, unit_id, from_tid, to_tid) ==
  LET from_units == territory_states(asg, from_tid) \ {unit_id}
      to_units   == territory_states(asg, to_tid) \cup {unit_id}
  IN IF Cardinality(from_units) <= 1 THEN FALSE
     ELSE \/ ~ is_territory_contiguous(from_units, call.adjacency)
          \/ ~ is_territory_contiguous(to_units, call.adjacency)

\* an iteration that applies a border move whether or not it lowers the ratio
RefineUngated ==
  /\ pc = "refine"
  /\ LET locked_units  == DOMAIN valid_locks
         swaps == {b \in get_border_units(assignments, locked_units) :
                     /\ b[1] \notin ISLAND_STATES
                     /\ ~ would_break_contiguity(assignments, b[1], b[2], b[3])}
     IN IF swaps # {}
        THEN \E best_swap \in swaps :
               /\ assignments' = [assignments EXCEPT ![best_swap[1]] = best_swap[3]]
               /\ iteration' = iteration + 1
               /\ pc' = IF iteration + 1 < max_iterations THEN "refine" ELSE "score"
        ELSE /\ pc' = "score"
             /\ UNCHANGED <<assignments, iteration>>
  /\ UNCHANGED <<storeVars, directVars, httpVars, genVars, territory_anchor, pq, counter, stuck_count>>

\* One iteration of the refinement loop
Refine ==
  /\ pc = "refine"
  /\ LET locked_units  == DOMAIN valid_locks
         current_loads == compute_loads(assignments)
         current_ratio == compute_max_min_ratio(current_loads)
         new_loads(b)  == [current_loads EXCEPT
                             ![b[2]] = @ - Get(Values.primary, b[1], 0),
                             ![b[3]] = @ + Get(Values.primary, b[1], 0)]
         new_ratio(b)  == compute_max_min_ratio(new_loads(b))
         swaps == {b \in get_border_units(assignments, locked_units) :
                     /\ b[1] \notin ISLAND_STATES
                     /\ ~ would_break_contiguity(assignments, b[1], b[2], b[3])
                     /\ RatioLess(new_ratio(b), current_ratio)}
         best_swaps == {b \in swaps : \A c \in swaps : ~ RatioLess(new_ratio(c), new_ratio(b))}
         \* (current_ratio - best_new_ratio) / current_ratio >= 0.005
         Enough(b) == /\ ~ current_ratio.inf
                      /\ 200 * new_ratio(b).num * current_ratio.den
                           <= 199 * current_ratio.num * new_ratio(b).den
     IN IF \E b \in best_swaps : Enough(b)
        THEN \E best_swap \in best_swaps :
               /\ assignments' = [assignments EXCEPT ![best_swap[1]] = best_swap[3]]
               /\ iteration' = iteration + 1
               /\ pc' = IF iteration + 1 < max_iterations THEN "refine" ELSE "score"
        ELSE /\ pc' = "score"
             /\ UNCHANGED <<assignments, iteration>>
  /\ UNCHANGED <<storeVars, directVars, httpVars, genVars, territory_anchor, pq, counter, stuck_count>>

(***************************************************************************)
(* generate_scenarios: balance_score and run_multi_start                   *)
(***************************************************************************)
seed_variants == <<"None", "1", "2">>

NoScore == [inf |-> TRUE, num |-> 0, den |-> 1]

\* mse + max_dev over the territories that occur in the map; with the loads
\* L (multiplied by scale), T their sum and k the territory count this is
\*   sum((k L - T)^2) / (k^3 scale^2)  +  max|k L - T| / T
balance_score(asg, values, k) ==
  LET tids  == {asg[u] : u \in DOMAIN asg}
      L(t)  == SumOver([u \in DOMAIN asg |-> Get(values.primary, u, 0)],
                       {u \in DOMAIN asg : asg[u] = t})
      T     == SumOver([t \in tids |-> L(t)], tids)
      dev   == [t \in tids |-> IF k * L(t) >= T THEN k * L(t) - T ELSE T - k * L(t)]
      SS    == SumOver([t \in tids |-> dev[t] * dev[t]], tids)
      M     == CHOOSE m \in {dev[t] : t \in tids} : \A t \in tids : dev[t] <= m
  IN IF T = 0 THEN NoScore
     ELSE [inf |-> FALSE,
           num |-> T * SS + k * k * k * values.scale * values.scale * M,
           den |-> k * k * k * values.scale * values.scale * T]

ScoreLess(a, b) ==
  /\ ~ a.inf
  /\ \/ b.inf
     \/ (a.den = b.den /\ a.num < b.num)
     \/ (a.den # b.den /\ a.num * b.den < b.num * a.den)

\* score the variant, keep the best; after the last variant append the
\* scenario (best_assignments or {}) and go on to the next scenario
ScoreVariant ==
  /\ pc = "score"
  /\ LET score  == balance_score(assignments, Values, K)
         better == ScoreLess(score, best_score)
         found  == best_found \/ better
         best   == IF better THEN assignments ELSE best_assignments
     IN IF variant < Len(seed_variants)
        THEN /\ variant' = variant + 1
             /\ best_found' = found
             /\ best_assignments' = best
             /\ best_score' = IF better THEN score ELSE best_score
             /\ pc' = "gb_init"
             /\ UNCHANGED <<scen, scenarios>>
        ELSE /\ scenarios' = Append(scenarios,
                                    [id |-> IF scen = 1 THEN "primary" ELSE "secondary",
                                     assignments |-> IF found THEN best ELSE EmptyMap])
             /\ variant' = 1
             /\ best_found' = FALSE
             /\ best_assignments' = EmptyMap
             /\ best_score' = NoScore
             /\ scen' = IF scen = 1 THEN 2 ELSE 1
             /\ pc' = IF scen = 1 THEN "gb_init"
                      ELSE IF call.fn = "generate_zip_scenarios_via_states" THEN "zip_fanout"
                      ELSE "returned"
  /\ assignments' = EmptyMap
  /\ territory_anchor' = EmptyMap
  /\ pq' = {}
  /\ counter' = 0
  /\ stuck_count' = 0
  /\ iteration' = 0
  /\ UNCHANGED <<storeVars, directVars, httpVars, call, valid_locks, user_seeds_inverted, guarded>>

\* generate_scenarios up to the first run_multi_start
GenerateScenariosStart ==
  /\ pc = "gen_start"
  /\ LET unit_values == UnitValues(call.aggregates, call.primary_metric, call.secondary_metric)
     IN /\ guarded' = <<unit_values_primary_guarded(unit_values),
                        unit_values_secondary_guarded(unit_values)>>
        /\ valid_locks' = ValidLocks(call.locked_assignments, call.seed_assignments,
                                     DOMAIN unit_values, call.k)
        /\ user_seeds_inverted' \in UserSeedsInverted(call.seed_assignments,
                                                      DOMAIN unit_values, call.k)
  /\ pc' = "gb_init"
  /\ UNCHANGED <<storeVars, directVars, httpVars, call, scen, variant, best_assignments, best_found,
                 best_score, scenarios, gbVars>>

(***************************************************************************)
(* generate_zip_scenarios_via_states                                       *)
(***************************************************************************)
\* state_locks / state_seeds: state_locks[zip_to_state[zip]] = tid for every
\* entry; among the entries of one state the last one of the caller's map wins
StateLevel(zip_map, zip_to_state) ==
  LET zs     == {z \in DOMAIN zip_map : z \in DOMAIN zip_to_state /\ zip_to_state[z] # ""
                                         /\ zip_map[z] # ""}
      states == {zip_to_state[z] : z \in zs}
  IN {f \in [states -> {zip_map[z] : z \in zs}] :
        \A st \in states : \E z \in zs : zip_to_state[z] = st /\ zip_map[z] = f[st]}

GenerateZipStart ==
  /\ pc = "zip_start"
  /\ \E state_seeds \in StateLevel(call.zip_seed_assignments, call.zip_to_state) :
     \E state_locks \in StateLevel(call.zip_locked_assignments, call.zip_to_state) :
       call' = [call EXCEPT !.aggregates = call.state_aggregates,
                            !.locked_assignments = state_locks,
                            !.seed_assignments = state_seeds,
                            !.adjacency = STATE_ADJACENCY,
                            !.require_contiguity = TRUE]
  /\ pc' = "gen_start"
  /\ UNCHANGED <<storeVars, directVars, httpVars, valid_locks, user_seeds_inverted, guarded, scen,
                 variant, best_assignments, best_found, best_score, scenarios, gbVars>>

\* the orphan index used one place too far into territory_ids
OrphanTerritoryOffByOne(i, k) == Tid((i % k) + 2)

\* territory_ids[i % k] for the i-th orphan ZIP (i counted from 0)
OrphanTerritory(i, k) == Tid((i % k) + 1)

\* the orphan ZIPs numbered by their place among all ZIPs
ZipAssignmentsByPlace(state_assignments, zip_keys, zip_to_state, k) ==
  LET HasState(z) == /\ z \in DOMAIN zip_to_state
                     /\ zip_to_state[z] # ""
                     /\ zip_to_state[z] \in DOMAIN state_assignments
  IN [z \in Range(zip_keys) |->
        IF HasState(z) THEN state_assignments[zip_to_state[z]]
        ELSE OrphanTerritory(PosIn(zip_keys, z) - 1, k)]

\* ZIP assignments built from the state assignments of one scenario
ZipAssignments(state_assignments, zip_keys, zip_to_state, k) ==
  LET HasState(z) == /\ z \in DOMAIN zip_to_state
                     /\ zip_to_state[z] # ""
                     /\ zip_to_state[z] \in DOMAIN state_assignments
      IsOrphan(z) == ~ HasState(z)
      unassigned_zips == SelectSeq(zip_keys, IsOrphan)
  IN [z \in Range(zip_keys) |->
        IF HasState(z) THEN state_assignments[zip_to_state[z]]
        ELSE OrphanTerritory(PosIn(unassigned_zips, z) - 1, k)]

ZipFanout ==
  /\ pc = "zip_fanout"
  /\ scenarios' = [i \in 1..Len(scenarios) |->
                     [id |-> scenarios[i].id,
                      assignments |-> ZipAssignments(scenarios[i].assignments, call.zip_keys,
                                                     call.zip_to_state, call.k)]]
  /\ pc' = "returned"
  /\ UNCHANGED <<storeVars, directVars, httpVars, call, valid_locks, user_seeds_inverted, guarded, scen,
                 variant, best_assignments, best_found, best_score, gbVars>>

(***************************************************************************)
(* Direct calls of the optimizer entry points (as the unit tests make)     *)
(***************************************************************************)
PRIMARY_DEFAULT == "Weighted_ICP_Value"
SECONDARY_DEFAULT == "GP_12M_Total"

\* one aggregate entry as _build_unit_aggregates produces it
Aggregate(n, w, g) ==
  [account_count |-> n,
   metric_sums   |-> [Weighted_ICP_Value |-> w, GP_12M_Total |-> g, Account_Count |-> n]]

CallUnitSets == {{"CA", "NV", "UT"}, {"CA", "NV", "FL"}, {"CA", "HI"}}

CallAggregates ==
  UNION {{[u \in U |-> Aggregate(1, w[u], g)] : w \in [U -> 0..MaxMetric], g \in {0, 1}} :
           U \in CallUnitSets}

\* maps with at most MaxLocks entries
SmallMaps(keys, labels) ==
  UNION {[S -> labels] : S \in {T \in SUBSET keys : Cardinality(T) <= MaxLocks}}

CallLocks == SmallMaps({"CA", "ZZ"}, {"T1", "T9"})
CallSeeds == SmallMaps({"CA"}, {"T2"})

NoRequest == [endpoint |-> "none"]
NoResponse == [status |-> 0]
NoResult == [fn |-> "none", scenarios |-> <<>>]
NoOutcome == [kind |-> "none"]

Args(fn, aggregates, k, primary_metric, secondary_metric, locked, seeds, adjacency, require_contiguity) ==
  [fn |-> fn, aggregates |-> aggregates, k |-> k,
   primary_metric |-> primary_metric, secondary_metric |-> secondary_metric,
   locked_assignments |-> locked, seed_assignments |-> seeds,
   adjacency |-> adjacency, require_contiguity |-> require_contiguity,
   state_aggregates |-> EmptyMap, zip_keys |-> <<>>, zip_to_state |-> EmptyMap,
   zip_locked_assignments |-> EmptyMap, zip_seed_assignments |-> EmptyMap]

ZipArgs(zip_keys, state_aggs, zip_to_state, k, primary_metric, secondary_metric, locked, seeds) ==
  [fn |-> "generate_zip_scenarios_via_states", aggregates |-> EmptyMap, k |-> k,
   primary_metric |-> primary_metric, secondary_metric |-> secondary_metric,
   locked_assignments |-> EmptyMap, seed_assignments |-> EmptyMap,
   adjacency |-> EmptyMap, require_contiguity |-> TRUE,
   state_aggregates |-> state_aggs, zip_keys |-> zip_keys,
   zip_to_state |-> zip_to_state,
   zip_locked_assignments |-> locked, zip_seed_assignments |-> seeds]

NoArgs == Args("none", EmptyMap, 0, "", "", EmptyMap, EmptyMap, EmptyMap, FALSE)

CallGenerateScenarios ==
  /\ pc = "idle"
  /\ \E aggregates \in CallAggregates, k \in 2..MaxK, locked \in CallLocks,
        seeds \in CallSeeds, require_contiguity \in BOOLEAN :
       call' = Args("generate_scenarios", aggregates, k, PRIMARY_DEFAULT, SECONDARY_DEFAULT,
                    locked, seeds, STATE_ADJACENCY, require_contiguity)
  /\ pc' = "gen_start"
  /\ UNCHANGED <<storeVars, directVars, httpVars, valid_locks, user_seeds_inverted, guarded, scen,
                 variant, best_assignments, best_found, best_score, scenarios, gbVars>>

CallZipKeys == <<"89101", "90001", "90002", "99998", "99999", "00000">>
CallZipToState ==
  [z \in {"89101", "90001", "90002", "00000"} |->
     IF z = "89101" THEN "NV" ELSE IF z = "00000" THEN "ZZ" ELSE "CA"]
CallZipStateAggregates ==
  {[u \in {"CA", "NV", "UT"} |-> Aggregate(1, w[u], 1)] :
     w \in {v \in [{"CA", "NV", "UT"} -> 0..MaxMetric] : v["NV"] = v["CA"]}}
CallZipLocks == SmallMaps({"90001", "90002"}, {"T1", "T2"})
CallZipSeeds == SmallMaps({"89101"}, {"T2"})

CallGenerateZip ==
  /\ pc = "idle"
  /\ \E state_aggs \in CallZipStateAggregates, k \in 2..MaxK, locked \in CallZipLocks,
        seeds \in CallZipSeeds :
       call' = ZipArgs(CallZipKeys, state_aggs, CallZipToState, k, PRIMARY_DEFAULT,
                       SECONDARY_DEFAULT, locked, seeds)
  /\ pc' = "zip_start"
  /\ UNCHANGED <<storeVars, directVars, httpVars, valid_locks, user_seeds_inverted, guarded, scen,
                 variant, best_assignments, best_found, best_score, scenarios, gbVars>>

\* the caller has received the scenarios of a direct call
Return ==
  /\ pc = "returned"
  /\ request = NoRequest
  /\ pc' = "idle"
  /\ call' = NoArgs
  /\ valid_locks' = EmptyMap
  /\ user_seeds_inverted' = EmptyMap
  /\ guarded' = <<>>
  /\ scenarios' = <<>>
  /\ UNCHANGED <<storeVars, directVars, httpVars, scen, variant, best_assignments, best_found,
                 best_score, gbVars>>

\* a caller that keeps the scenarios of a generate_scenarios call and makes
\* the same call again:  first = generate_scenarios(*args);
\*                        second = generate_scenarios(*args)
CallFirstLocks == {EmptyMap, [u \in {"CA"} |-> "T1"]}

CallFirst ==
  /\ pc = "idle"
  /\ \E aggregates \in CallAggregates, k \in 2..MaxK, locked \in CallFirstLocks,
        require_contiguity \in BOOLEAN :
       call' = Args("generate_scenarios", aggregates, k, PRIMARY_DEFAULT, SECONDARY_DEFAULT,
                    locked, EmptyMap, STATE_ADJACENCY, require_contiguity)
  /\ pc' = "gen_start"
  /\ UNCHANGED <<storeVars, directVars, httpVars, valid_locks, user_seeds_inverted, guarded, scen,
                 variant, best_assignments, best_found, best_score, scenarios, gbVars>>

CallAgain ==
  /\ pc = "returned"
  /\ request = NoRequest
  /\ call.fn = "generate_scenarios"
  /\ first_result = NoResult
  /\ first_result' = [fn |-> call.fn, scenarios |-> scenarios]
  /\ pc' = "gen_start"
  /\ valid_locks' = EmptyMap
  /\ user_seeds_inverted' = EmptyMap
  /\ guarded' = <<>>
  /\ scenarios' = <<>>
  /\ UNCHANGED <<storeVars, directVars, request, response, call, scen, variant, best_assignments,
                 best_found, best_score, gbVars>>

\* the second call has returned; the caller drops both results
ReturnSecond ==
  /\ pc = "returned"
  /\ request = NoRequest
  /\ first_result # NoResult
  /\ pc' = "idle"
  /\ first_result' = NoResult
  /\ call' = NoArgs
  /\ valid_locks' = EmptyMap
  /\ user_seeds_inverted' = EmptyMap
  /\ guarded' = <<>>
  /\ scenarios' = <<>>
  /\ UNCHANGED <<storeVars, directVars, request, response, scen, variant, best_assignments, best_found,
                 best_score, gbVars>>

(***************************************************************************)
(* primary_balanced / secondary_balanced: greedy placement, called directly *)
(***************************************************************************)
greedy_functions == {"primary_balanced", "secondary_balanced"}

\* the metric the called function balances on
greedy_value(unit_id) ==
  LET unit_values == UnitValues(call.aggregates, call.primary_metric, call.secondary_metric)
  IN IF call.fn = "primary_balanced" THEN unit_values[unit_id].primary
     ELSE unit_values[unit_id].secondary

\* load_primary / load_secondary of a territory
greedy_load(asg, tid) ==
  SumOver([u \in DOMAIN asg |-> greedy_value(u)], territory_states(asg, tid))

\* the territories that pass the contiguity test of the placement loop
greedy_admitting(asg, unit_id) ==
  {tid \in TerritoryIds(call.k) :
     (call.require_contiguity /\ territory_states(asg, tid) # {})
       => can_add_to_territory(unit_id, territory_states(asg, tid), call.adjacency)}

\* the first territory, in T1..Tk order, of minimum load among tids
least_loaded(asg, tids) ==
  CHOOSE t \in tids :
    \A o \in tids : \/ greedy_load(asg, t) < greedy_load(asg, o)
                    \/ /\ greedy_load(asg, t) = greedy_load(asg, o)
                       /\ TidIndex(t) <= TidIndex(o)

\* what the call does after the placement loop
greedy_outcome_relaxed(failures, require_contiguity, asg) ==
  [kind |-> "return", value |-> asg]

greedy_outcome(failures, require_contiguity, asg) ==
  IF failures # <<>> /\ require_contiguity
  THEN [kind |-> "raise", error |-> "ValueError"]
  ELSE [kind |-> "return", value |-> asg]

CallGreedyUnits == CallUnitSets \cup {{"CA", "FL"}}

CallGreedyAggregates ==
  UNION {{[u \in U |-> Aggregate(1, w[u], g)] : w \in [U -> 0..MaxMetric], g \in {0, 1}} :
           U \in CallGreedyUnits}

\* locks applied, the other units sorted by the metric, descending; units of
\* equal value keep the order of the unit_values dict
CallGreedy ==
  /\ pc = "idle"
  /\ \E fn \in greedy_functions, aggregates \in CallGreedyAggregates, k \in 1..MaxK,
        locked \in CallLocks, require_contiguity \in BOOLEAN :
       LET asg0 == LockedAssignments(locked, DOMAIN aggregates, k)
           args == Args(fn, aggregates, k, PRIMARY_DEFAULT, SECONDARY_DEFAULT,
                        locked, EmptyMap, STATE_ADJACENCY, require_contiguity)
           value(u) == IF fn = "primary_balanced"
                       THEN aggregates[u].metric_sums[PRIMARY_DEFAULT]
                       ELSE aggregates[u].metric_sums[SECONDARY_DEFAULT]
       IN /\ call' = args
          /\ assignments' = asg0
          /\ \E order \in Perms(DOMAIN aggregates \ DOMAIN asg0) :
               /\ \A i, j \in 1..Len(order) : i < j => value(order[i]) >= value(order[j])
               /\ remaining_units' = order
  /\ unit_index' = 0
  /\ contiguity_failures' = <<>>
  /\ result' = NoOutcome
  /\ pc' = "place"
  /\ UNCHANGED <<storeVars, httpVars, valid_locks, user_seeds_inverted, guarded, scen,
                 variant, best_assignments, best_found, best_score, scenarios,
                 territory_anchor, pq, counter, stuck_count, iteration>>

\* one turn of the placement loop
GreedyPlace ==
  /\ pc = "place"
  /\ unit_index < Len(remaining_units)
  /\ LET unit_id   == remaining_units[unit_index + 1]
         admitting == greedy_admitting(assignments, unit_id)
         best_tid  == IF admitting # {} THEN least_loaded(assignments, admitting)
                      ELSE least_loaded(assignments, TerritoryIds(call.k))
     IN /\ contiguity_failures' =
             IF admitting = {} /\ call.require_contiguity
             THEN Append(contiguity_failures, unit_id) ELSE contiguity_failures
        /\ assignments' = assignments @@ (unit_id :> best_tid)
  /\ unit_index' = unit_index + 1
  /\ UNCHANGED <<storeVars, httpVars, genVars, territory_anchor, pq, counter, stuck_count,
                 iteration, remaining_units, result, pc>>

\* after the loop: ValueError or the assignments
GreedyFinish ==
  /\ pc = "place"
  /\ unit_index = Len(remaining_units)
  /\ result' = greedy_outcome(contiguity_failures, call.require_contiguity, assignments)
  /\ pc' = "greedy_done"
  /\ UNCHANGED <<storeVars, httpVars, genVars, gbVars, remaining_units, unit_index,
                 contiguity_failures>>

\* the caller has the outcome; the call's locals are gone
GreedyReturn ==
  /\ pc = "greedy_done"
  /\ pc' = "idle"
  /\ call' = NoArgs
  /\ assignments' = EmptyMap
  /\ remaining_units' = <<>>
  /\ unit_index' = 0
  /\ contiguity_failures' = <<>>
  /\ result' = NoOutcome
  /\ UNCHANGED <<storeVars, httpVars, valid_locks, user_seeds_inverted, guarded, scen,
                 variant, best_assignments, best_found, best_score, scenarios,
                 territory_anchor, pq, counter, stuck_count, iteration>>

(***************************************************************************)
(* data_loader.py: the store                                               *)
(***************************************************************************)
VALID_STATES == {"CA", "NV", "UT", "FL", "HI"}

STATE_NORMALIZATION ==
  [CA |-> "CA", NV |-> "NV", UT |-> "UT", FL |-> "FL", HI |-> "HI", CALIFORNIA |-> "CA"]

BALANCING_METRICS == {"Weighted_ICP_Value", "GP_12M_Total", "Account_Count"}

None == "None"

\* str(x).strip().upper() on the strings of the model
StripUpper(x) ==
  IF x = " ca" THEN "CA"
  ELSE IF x = "California" THEN "CALIFORNIA"
  ELSE IF x = "xx" THEN "XX"
  ELSE x

normalize_state_code(state) ==
  IF state = "" THEN None
  ELSE LET state_str == StripUpper(state)
       IN IF state_str \in DOMAIN STATE_NORMALIZATION THEN STATE_NORMALIZATION[state_str]
          ELSE IF state_str \in VALID_STATES THEN state_str
          ELSE None

\* groupby visits its keys in sorted order
SortedCodes ==
  <<"33101", "84101", "89101", "90001", "90002", "96801", "CA", "FL", "HI", "NV", "UT">>

SortedKeys(aggs) ==
  LET IsKey(c) == c \in DOMAIN aggs IN SelectSeq(SortedCodes, IsKey)

Row(country, state, zip, w, g) ==
  [ShippingCountry |-> country, ShippingState |-> state, ShippingZip |-> zip,
   Weighted_ICP_Value |-> w, GP_12M_Total |-> g]

\* the accounts file: w is the weight of the large accounts, g the gross
\* profit of every account
CsvRows(w, g) ==
  <<Row("_unitedStates", "CA", "90001", w, g),
    Row("_unitedStates", " ca", "90002", 0, g),
    Row("_unitedStates", "California", "90002", 0, g),
    Row("_unitedStates", "NV", "89101", w, g),
    Row("_unitedStates", "UT", "84101", w, g),
    Row("_unitedStates", "FL", "33101", 0, g),
    Row("_unitedStates", "HI", "96801", 0, g),
    Row("_mexico", "CA", "90001", w, g),
    Row("_unitedStates", "xx", "00000", w, g)>>

\* the same file with the Utah account booked under Canada: load_data keeps a
\* Canadian row only when its state code is a valid one
CsvRowsTwoCountries(w, g) == [CsvRows(w, g) EXCEPT ![5].ShippingCountry = "_canada"]

CsvContents == {CsvRows(0, 0), CsvRows(MaxMetric, 1), CsvRowsTwoCountries(MaxMetric, 1)}

RowIndexes(rows, col, key) == {i \in 1..Len(rows) : rows[i][col] = key}

\* _build_unit_aggregates / _build_unit_aggregates_from_df
build_unit_aggregates(rows, granularity) ==
  LET group_col == IF granularity = "state" THEN "ShippingState" ELSE "ShippingZip"
      keys == {rows[i][group_col] : i \in 1..Len(rows)} \ {"", None}
      group(key) == RowIndexes(rows, group_col, key)
  IN [key \in keys |->
        [account_count |-> Cardinality(group(key)),
         metric_sums |->
           [Weighted_ICP_Value |->
              SumOver([i \in 1..Len(rows) |-> rows[i].Weighted_ICP_Value], group(key)),
            GP_12M_Total |->
              SumOver([i \in 1..Len(rows) |-> rows[i].GP_12M_Total], group(key)),
            Account_Count |-> Cardinality(group(key))]]]

\* load_data: country filter, state normalisation, aggregates
LoadedFrame(csv) ==
  LET InCountries(r) == r.ShippingCountry \in {"_unitedStates", "_canada"}
      Normalized(r)  == [r EXCEPT !.ShippingState = normalize_state_code(@)]
      Valid(r)       == r.ShippingState # None
      kept           == SelectSeq(csv, InCountries)
  IN SelectSeq([i \in 1..Len(kept) |-> Normalized(kept[i])], Valid)

get_aggregates(granularity) ==
  IF granularity = "state" THEN state_aggregates ELSE zip_aggregates

\* first state of every ZIP in the sorted (ZIP, state) groups
get_zip_to_state_mapping ==
  LET zips == {df[i].ShippingZip : i \in 1..Len(df)} \ {""}
      states(z) == {df[i].ShippingState : i \in RowIndexes(df, "ShippingZip", z)}
      sorted_states(z) == LET InZ(c) == c \in states(z) IN SelectSeq(SortedCodes, InZ)
  IN [z \in zips |-> StripUpper(sorted_states(z)[1])]

get_filtered_aggregates(granularity, country_filter) ==
  IF country_filter = "" THEN get_aggregates(granularity)
  ELSE LET target_country == IF country_filter = "us" THEN "_unitedStates"
                             ELSE IF country_filter = "ca" THEN "_canada"
                             ELSE ""
           InTarget(r) == r.ShippingCountry = target_country
           df_filtered == IF country_filter # "all" /\ target_country # ""
                          THEN SelectSeq(df, InTarget) ELSE df
       IN build_unit_aggregates(df_filtered, granularity)

\* the load attempted without looking for the file
LifespanLoadsAlways ==
  /\ pc = "starting"
  /\ \E csv \in CsvContents :
       /\ df' = LoadedFrame(csv)
       /\ state_aggregates' = build_unit_aggregates(LoadedFrame(csv), "state")
       /\ zip_aggregates' = build_unit_aggregates(LoadedFrame(csv), "zip")
       /\ is_loaded' = TRUE
  /\ pc' = "idle"
  /\ UNCHANGED <<csv_exists, directVars, httpVars, genVars, gbVars>>

\* lifespan: the file is loaded only when it exists
Lifespan ==
  /\ pc = "starting"
  /\ IF csv_exists
     THEN \E csv \in CsvContents :
            /\ df' = LoadedFrame(csv)
            /\ state_aggregates' = build_unit_aggregates(LoadedFrame(csv), "state")
            /\ zip_aggregates' = build_unit_aggregates(LoadedFrame(csv), "zip")
            /\ is_loaded' = TRUE
     ELSE UNCHANGED <<df, state_aggregates, zip_aggregates, is_loaded>>
  /\ pc' = "idle"
  /\ UNCHANGED <<csv_exists, directVars, httpVars, genVars, gbVars>>

(***************************************************************************)
(* metrics.py: scenario statistics; optimizer.py: contiguity report        *)
(***************************************************************************)
\* the member units counted in place of their accounts
compute_territory_stats_counting_units(territory_id, unit_ids, aggregates, primary_metric, secondary_metric) ==
  LET known == {u \in unit_ids : u \in DOMAIN aggregates}
      sum(metric) == SumOver([u \in known |-> Get(aggregates[u].metric_sums, metric, 0)], known)
  IN [territory_id  |-> territory_id,
      unit_ids      |-> unit_ids,
      primary_sum   |-> sum(primary_metric),
      secondary_sum |-> sum(secondary_metric),
      account_count |-> Cardinality(known)]

compute_territory_stats(territory_id, unit_ids, aggregates, primary_metric, secondary_metric) ==
  LET known == {u \in unit_ids : u \in DOMAIN aggregates}
      sum(metric) == SumOver([u \in known |-> Get(aggregates[u].metric_sums, metric, 0)], known)
  IN [territory_id  |-> territory_id,
      unit_ids      |-> unit_ids,
      primary_sum   |-> sum(primary_metric),
      secondary_sum |-> sum(secondary_metric),
      account_count |-> SumOver([u \in known |-> aggregates[u].account_count], known)]

compute_scenario_stats(scenario, aggregates, k, primary_metric, secondary_metric, info) ==
  LET asg == scenario.assignments
      assigned_units == {u \in DOMAIN asg : u \in DOMAIN aggregates}
      territory_units(tid) == {u \in assigned_units : asg[u] = tid}
  IN [id |-> scenario.id,
      assignments |-> asg,
      territory_stats |->
        [tid \in TerritoryIds(k) |->
           compute_territory_stats(tid, territory_units(tid), aggregates,
                                   primary_metric, secondary_metric)],
      unassigned_units |-> DOMAIN aggregates \ assigned_units,
      contiguity_checked |-> info.checked,
      contiguity_ok |-> info.ok,
      non_contiguous_territories |-> info.non_contiguous]

\* a report that never checks
check_assignments_contiguity_unchecked(asg, adjacency) ==
  [checked |-> FALSE, non_contiguous |-> {}, ok |-> TRUE]

check_assignments_contiguity(asg, adjacency) ==
  IF DOMAIN adjacency = {}
  THEN [checked |-> FALSE, non_contiguous |-> {}, ok |-> TRUE]
  ELSE LET tids == {asg[u] : u \in DOMAIN asg} \ {""}
           units(t) == {StripUpper(u) : u \in {v \in DOMAIN asg : asg[v] = t}}
           failures == {t \in tids : ~ is_territory_contiguous(units(t), adjacency)}
       IN [checked |-> TRUE, non_contiguous |-> failures, ok |-> failures = {}]

\* the state graph handed out for every granularity
get_adjacency_list_state_always(granularity) == STATE_ADJACENCY

get_adjacency_list(granularity) ==
  IF granularity = "state" THEN STATE_ADJACENCY ELSE EmptyMap

\* main.py: adjacency keys and neighbours normalised to upper-case strings
NormalizeAdjacency(adjacency) ==
  [key \in {StripUpper(x) : x \in DOMAIN adjacency} |->
     UNION {{StripUpper(n) : n \in adjacency[x]} :
              x \in {y \in DOMAIN adjacency : StripUpper(y) = key}}]

(***************************************************************************)
(* main.py: requests                                                       *)
(***************************************************************************)
Req(endpoint, granularity, k, primary_metric, secondary_metric, locked, seeds, asg, force_contiguity, country_filter) ==
  [endpoint |-> endpoint, granularity |-> granularity, k |-> k,
   primary_metric |-> primary_metric, secondary_metric |-> secondary_metric,
   locked_assignments |-> locked, seed_assignments |-> seeds, assignments |-> asg,
   require_contiguity |-> TRUE, force_contiguity |-> force_contiguity,
   country_filter |-> country_filter]

OptimizeRequests ==
  {Req("/optimize", g, k, PRIMARY_DEFAULT, SECONDARY_DEFAULT, l, sd, EmptyMap, f, "") :
     g \in {"state", "zip"}, k \in 2..MaxK,
     l \in SmallMaps({"CA", "ZZ"}, {"T1", "T3"}),
     sd \in SmallMaps({"NV"}, {"T2", "T9"}),
     f \in BOOLEAN}
  \cup
  {Req("/optimize", "state", 2, pm, sm, l, EmptyMap, EmptyMap, FALSE, cf) :
     pm \in {PRIMARY_DEFAULT, "Revenue"}, sm \in {SECONDARY_DEFAULT, "Revenue"},
     l \in {EmptyMap, [u \in {"CA"} |-> "T9"]}, cf \in {"", "ca", "us"}}

EvaluateRequests ==
  {Req("/evaluate", g, k, pm, SECONDARY_DEFAULT, EmptyMap, EmptyMap, a, FALSE, cf) :
     g \in {"state", "zip"}, k \in 2..MaxK, pm \in {PRIMARY_DEFAULT, "Revenue"},
     a \in SmallMaps({"CA", "NV", "ZZ"}, {"T1", "T9"}), cf \in {"", "ca"}}

RequestAggregates(req) == get_filtered_aggregates(req.granularity, req.country_filter)

\* expand_state_assignments: a state key stands for all of its ZIPs; when two
\* entries reach one ZIP the later entry of the request's map wins
ExpandStateAssignments(asg) ==
  LET zip_to_state == get_zip_to_state_mapping
      state_keys   == {StripUpper(x) : x \in DOMAIN state_aggregates}
      targets(key) == IF StripUpper(key) \in state_keys
                      THEN {z \in DOMAIN zip_to_state : zip_to_state[z] = StripUpper(key)}
                      ELSE {key}
      zs == UNION {targets(key) : key \in DOMAIN asg}
  IN {f \in [zs -> {asg[key] : key \in DOMAIN asg}] :
        \A z \in zs : \E key \in DOMAIN asg : z \in targets(key) /\ f[z] = asg[key]}

Expanded(req, asg) ==
  IF req.granularity = "zip" THEN ExpandStateAssignments(asg) ELSE {asg}

\* the label validated before the unit id is looked up
HasInvalidLabelAnyUnit(asg, aggregates, k) ==
  \E u \in DOMAIN asg : asg[u] \notin TerritoryIds(k)

\* an entry with a known unit and a label outside T1..Tk
HasInvalidLabel(asg, aggregates, k) ==
  \E u \in DOMAIN asg : u \in DOMAIN aggregates /\ asg[u] \notin TerritoryIds(k)


\* the country filter applied to the store's own table instead of to a copy
RespondFilteringInPlace(req, resp) ==
  /\ pc' = "responded"
  /\ request' = req
  /\ response' = resp
  /\ df' = IF "country_filter" \in DOMAIN req /\ req.country_filter \in {"ca", "us"}
           THEN LET InTarget(r) ==
                      r.ShippingCountry = (IF req.country_filter = "us"
                                           THEN "_unitedStates" ELSE "_canada")
                IN SelectSeq(df, InTarget)
           ELSE df
  /\ UNCHANGED <<csv_exists, is_loaded, state_aggregates, zip_aggregates>>
  /\ UNCHANGED <<directVars, first_result, genVars, gbVars>>

Respond(req, resp) ==
  /\ pc' = "responded"
  /\ request' = req
  /\ response' = resp
  /\ UNCHANGED <<storeVars, directVars, first_result, genVars, gbVars>>

HttpError(status, detail) == [status |-> status, detail |-> detail]

Health ==
  /\ pc = "idle"
  /\ Respond([endpoint |-> "/health"], [status |-> 200, body |-> "ok"])

Config ==
  /\ pc = "idle"
  /\ IF ~ is_loaded
     THEN Respond([endpoint |-> "/config"], HttpError(503, "not_loaded"))
     ELSE Respond([endpoint |-> "/config"],
                  [status |-> 200, row_count |-> Len(df),
                   state_count |-> Cardinality(DOMAIN state_aggregates),
                   zip_count |-> Cardinality(DOMAIN zip_aggregates)])

ZipToState ==
  /\ pc = "idle"
  /\ IF ~ is_loaded
     THEN Respond([endpoint |-> "/zip_to_state"], HttpError(503, "not_loaded"))
     ELSE Respond([endpoint |-> "/zip_to_state"],
                  [status |-> 200, body |-> get_zip_to_state_mapping])

\* the metric names validated before the store is looked at
optimize_checks_metrics_first(req) ==
  IF req.primary_metric \notin BALANCING_METRICS THEN HttpError(400, "primary_metric")
  ELSE IF req.secondary_metric \notin BALANCING_METRICS THEN HttpError(400, "secondary_metric")
  ELSE IF ~ is_loaded THEN HttpError(503, "not_loaded")
  ELSE IF DOMAIN RequestAggregates(req) = {} THEN HttpError(400, "no_data")
  ELSE NoResponse

\* optimize_territories: the checks made before the lock and seed maps are read
optimize_checks(req) ==
  IF ~ is_loaded THEN HttpError(503, "not_loaded")
  ELSE IF req.primary_metric \notin BALANCING_METRICS THEN HttpError(400, "primary_metric")
  ELSE IF req.secondary_metric \notin BALANCING_METRICS THEN HttpError(400, "secondary_metric")
  ELSE IF DOMAIN RequestAggregates(req) = {} THEN HttpError(400, "no_data")
  ELSE NoResponse

\* optimize_territories: validation of the (expanded) lock and seed maps
optimize_label_checks(locked, seeds, aggregates, k) ==
  IF HasInvalidLabel(locked, aggregates, k) THEN HttpError(400, "locked_assignments")
  ELSE IF HasInvalidLabel(seeds, aggregates, k) THEN HttpError(400, "seed_assignments")
  ELSE NoResponse

\* optimize_territories up to the call of the scenario generator
OptimizeStart ==
  /\ pc = "idle"
  /\ \E req \in OptimizeRequests :
       IF optimize_checks(req) # NoResponse
       THEN Respond(req, optimize_checks(req))
       ELSE
         \E locked \in Expanded(req, req.locked_assignments) :
         \E seeds \in Expanded(req, req.seed_assignments) :
           LET aggregates == RequestAggregates(req)
               adjacency  == NormalizeAdjacency(get_adjacency_list(req.granularity))
               expanded   == [req EXCEPT !.locked_assignments = locked,
                                         !.seed_assignments = seeds]
               rejection  == optimize_label_checks(locked, seeds, aggregates, req.k)
           IN IF rejection # NoResponse
              THEN Respond(expanded, rejection)
              ELSE /\ request' = expanded
                   /\ response' = NoResponse
                   /\ IF req.granularity = "zip"
                      THEN /\ call' = ZipArgs(SortedKeys(aggregates),
                                              get_filtered_aggregates("state", req.country_filter),
                                              get_zip_to_state_mapping, req.k,
                                              req.primary_metric, req.secondary_metric,
                                              locked, seeds)
                           /\ pc' = "zip_start"
                      ELSE /\ call' = Args("generate_scenarios", aggregates, req.k,
                                           req.primary_metric, req.secondary_metric,
                                           locked, seeds, adjacency,
                                           req.require_contiguity /\ DOMAIN adjacency # {})
                           /\ pc' = "gen_start"
                   /\ UNCHANGED <<storeVars, directVars, first_result, valid_locks,
                                  user_seeds_inverted, guarded, scen, variant, best_assignments, best_found, best_score,
                                  scenarios, gbVars>>

\* optimize_territories after the generator has returned
OptimizeFinish ==
  /\ pc = "returned"
  /\ request # NoRequest
  /\ LET aggregates == RequestAggregates(request)
         adjacency  == NormalizeAdjacency(get_adjacency_list(request.granularity))
         info(i)    == check_assignments_contiguity(scenarios[i].assignments, adjacency)
         failing    == {i \in 1..Len(scenarios) : info(i).checked /\ ~ info(i).ok}
         warnings   ==
           (IF request.require_contiguity /\ DOMAIN adjacency = {}
            THEN {[kind |-> "not_enforced"]} ELSE {})
           \cup (IF DOMAIN adjacency # {}
                    /\ {StripUpper(u) : u \in DOMAIN aggregates} \ DOMAIN adjacency # {}
                 THEN {[kind |-> "missing_adjacency"]} ELSE {})
           \cup {[kind |-> "non_contiguous", scenario |-> scenarios[i].id,
                  territories |-> info(i).non_contiguous] : i \in failing}
     IN IF request.force_contiguity /\ failing # {}
        THEN response' = HttpError(422, "contiguity")
        ELSE response' =
               [status |-> 200,
                scenarios |-> [i \in 1..Len(scenarios) |->
                                 compute_scenario_stats(scenarios[i], aggregates, request.k,
                                                        request.primary_metric,
                                                        request.secondary_metric, info(i))],
                warnings |-> warnings]
  /\ pc' = "responded"
  /\ UNCHANGED <<storeVars, directVars, request, first_result, genVars, gbVars>>

evaluate_response(req, asg) ==
  LET aggregates == RequestAggregates(req)
      info == check_assignments_contiguity(asg, get_adjacency_list(req.granularity))
  IN [status |-> 200,
      scenario |-> compute_scenario_stats([id |-> "manual", assignments |-> asg],
                                          aggregates, req.k, req.primary_metric,
                                          req.secondary_metric, info)]

\* evaluate_assignments: the checks made before the assignment map is read
evaluate_checks(req) ==
  IF ~ is_loaded THEN HttpError(503, "not_loaded")
  ELSE IF req.primary_metric \notin BALANCING_METRICS THEN HttpError(400, "primary_metric")
  ELSE IF req.secondary_metric \notin BALANCING_METRICS THEN HttpError(400, "secondary_metric")
  ELSE IF DOMAIN RequestAggregates(req) = {} THEN HttpError(400, "no_data")
  ELSE NoResponse

\* evaluate_assignments
Evaluate ==
  /\ pc = "idle"
  /\ \E req \in EvaluateRequests :
       IF evaluate_checks(req) # NoResponse
       THEN Respond(req, evaluate_checks(req))
       ELSE \E asg \in Expanded(req, req.assignments) :
              Respond([req EXCEPT !.assignments = asg], evaluate_response(req, asg))

\* the response has been sent; the handler's locals are gone
Complete ==
  /\ pc = "responded"
  /\ pc' = "idle"
  /\ request' = NoRequest
  /\ response' = NoResponse
  /\ call' = NoArgs
  /\ valid_locks' = EmptyMap
  /\ user_seeds_inverted' = EmptyMap
  /\ guarded' = <<>>
  /\ scenarios' = <<>>
  /\ UNCHANGED <<storeVars, directVars, first_result, scen, variant, best_assignments, best_found,
                 best_score, gbVars>>

(***************************************************************************)
(* The contiguity primitives called directly, as the test suite does        *)
(***************************************************************************)
\* geographic_balanced called directly: Nevada and its four neighbours, a
\* set with a unit out of reach (Florida) and an island, and a set with a
\* unit that has no centroid
GrowUnitSets ==
  {{"CA", "NV", "UT", "AZ", "OR"}, {"CA", "NV", "AZ", "FL", "HI"}, {"CA", "NV", "ZZ"}}

GrowLocks == {EmptyMap, [u \in {"CA"} |-> "T2"], [u \in {"NV"} |-> "T1"]}

\* geographic_balanced(unit_values, k, locked, adjacency=STATE_ADJACENCY)
CallGeographicBalancedOn(unit_sets) ==
  /\ pc = "idle"
  /\ \E U \in unit_sets, k \in 1..MaxK, locked \in GrowLocks :
     \E w \in [U -> 0..MaxMetric] :
       /\ call' = Args("geographic_balanced", [u \in U |-> Aggregate(1, w[u], 0)], k,
                       PRIMARY_DEFAULT, SECONDARY_DEFAULT, locked, EmptyMap,
                       STATE_ADJACENCY, TRUE)
       /\ guarded' = <<[scale |-> 1, primary |-> w]>>
       /\ valid_locks' = locked
  /\ user_seeds_inverted' = EmptyMap
  /\ scen' = 1
  /\ result' = NoOutcome
  /\ pc' = "gb_init"
  /\ UNCHANGED <<storeVars, httpVars, variant, best_assignments, best_found, best_score,
                 scenarios, gbVars, remaining_units, unit_index, contiguity_failures>>

CallGeographicBalanced == CallGeographicBalancedOn(GrowUnitSets)

\* Unit sets for the calls that are followed to their return: a unit that no
\* frontier reaches (ZZ) next to states that two territories compete for,
\* and an island
StallUnitSets == {{"CA", "NV", "UT", "AZ", "ZZ"}, {"CA", "NV", "HI"}}

CallGeographicBalancedToReturn == CallGeographicBalancedOn(StallUnitSets)

\* return assignments
GBFinish ==
  /\ pc \in {"refine", "score"}
  /\ call.fn = "geographic_balanced"
  /\ result' = [kind |-> "return", value |-> assignments]
  /\ pc' = "gb_done"
  /\ UNCHANGED <<storeVars, httpVars, genVars, gbVars, remaining_units, unit_index,
                 contiguity_failures>>

\* the caller has the assignment map; the call's locals are gone
GBReturn ==
  /\ pc = "gb_done"
  /\ pc' = "idle"
  /\ call' = NoArgs
  /\ guarded' = <<>>
  /\ valid_locks' = EmptyMap
  /\ assignments' = EmptyMap
  /\ territory_anchor' = EmptyMap
  /\ pq' = {}
  /\ counter' = 0
  /\ stuck_count' = 0
  /\ result' = NoOutcome
  /\ UNCHANGED <<storeVars, httpVars, user_seeds_inverted, scen, variant, best_assignments,
                 best_found, best_score, scenarios, iteration, remaining_units, unit_index,
                 contiguity_failures>>

\* local_refinement_pass called directly.  The unit sets have a unit with
\* no mainland neighbour and an island.
RefineUnitSets == {{"CA", "NV", "UT"}, {"CA", "UT", "HI"}, {"CA", "NV", "HI"}}

\* the state adjacency, and the same map with a sea link between California
\* and Hawaii entered in both directions
SeaLinkAdjacency ==
  [u \in DOMAIN STATE_ADJACENCY |->
     IF u = "HI" THEN {"CA"}
     ELSE IF u = "CA" THEN STATE_ADJACENCY[u] \cup {"HI"}
     ELSE STATE_ADJACENCY[u]]

RefineAdjacencies == {STATE_ADJACENCY, SeaLinkAdjacency}

\* local_refinement_pass(assignments, unit_values, k, adjacency,
\*                       max_iterations=50, improvement_threshold=0.005,
\*                       locked_units=locked_units):
\* the function works on a copy, so the caller keeps the map it passed
CallLocalRefinementPass ==
  /\ pc = "idle"
  /\ \E U \in RefineUnitSets, k \in 2..MaxK, adjacency \in RefineAdjacencies :
     \E w \in [U -> 0..MaxValue], asg \in [U -> TerritoryIds(k)] :
     \E locked_units \in {L \in SUBSET U : Cardinality(L) <= 1} :
       /\ call' = Args("local_refinement_pass", [u \in U |-> Aggregate(1, w[u], 0)], k,
                       PRIMARY_DEFAULT, SECONDARY_DEFAULT, EmptyMap, EmptyMap, adjacency, TRUE)
       /\ guarded' = <<[scale |-> 1, primary |-> w]>>
       /\ valid_locks' = [u \in locked_units |-> asg[u]]
       /\ assignments' = asg
       /\ first_result' = [fn |-> "caller", scenarios |-> <<[id |-> "input", assignments |-> asg]>>]
  /\ scen' = 1
  /\ iteration' = 0
  /\ result' = NoOutcome
  /\ pc' = "refine"
  /\ UNCHANGED <<storeVars, request, response, user_seeds_inverted, variant, best_assignments,
                 best_found, best_score, scenarios, territory_anchor, pq, counter, stuck_count,
                 remaining_units, unit_index, contiguity_failures>>

\* return assignments
RefineFinish ==
  /\ pc = "score"
  /\ call.fn = "local_refinement_pass"
  /\ result' = [kind |-> "return", value |-> assignments, iterations |-> iteration]
  /\ pc' = "refine_done"
  /\ UNCHANGED <<storeVars, httpVars, genVars, gbVars, remaining_units, unit_index,
                 contiguity_failures>>

\* the caller has the refined map; the call's locals are gone
RefineReturn ==
  /\ pc = "refine_done"
  /\ pc' = "idle"
  /\ call' = NoArgs
  /\ guarded' = <<>>
  /\ valid_locks' = EmptyMap
  /\ assignments' = EmptyMap
  /\ iteration' = 0
  /\ first_result' = NoResult
  /\ result' = NoOutcome
  /\ UNCHANGED <<storeVars, request, response, user_seeds_inverted, scen, variant,
                 best_assignments, best_found, best_score, scenarios, territory_anchor, pq,
                 counter, stuck_count, remaining_units, unit_index, contiguity_failures>>

PrimUnits == {"CA", "NV", "UT", "HI"}

\* every neighbour map of the mainland units; the island either has no
\* neighbours or is listed next to two mainland units
PrimAdjacencies ==
  {adj \in [PrimUnits -> SUBSET PrimUnits] :
     /\ \A u \in PrimUnits : u \notin adj[u]
     /\ adj["HI"] \in {{}, {"CA", "UT"}}}

\* is_territory_contiguous(territory_states, adjacency)
CallIsTerritoryContiguous ==
  /\ pc = "idle"
  /\ \E members \in SUBSET PrimUnits, adjacency \in PrimAdjacencies :
     \E first \in states_list_heads(members) :
       /\ call' = [fn |-> "is_territory_contiguous",
                   territory_states |-> members, adjacency |-> adjacency]
       /\ result' = [kind |-> "return",
                     value |-> is_contiguous_from(first, members, adjacency)]
  /\ pc' = "prim_done"
  /\ UNCHANGED <<storeVars, httpVars, valid_locks, user_seeds_inverted, guarded, scen,
                 variant, best_assignments, best_found, best_score, scenarios, gbVars,
                 remaining_units, unit_index, contiguity_failures>>

\* can_add_to_territory(state, territory_states, adjacency)
CallCanAddToTerritory ==
  /\ pc = "idle"
  /\ \E state \in PrimUnits, members \in SUBSET PrimUnits,
        adjacency \in PrimAdjacencies :
       /\ call' = [fn |-> "can_add_to_territory", state |-> state,
                   territory_states |-> members, adjacency |-> adjacency]
       /\ result' = [kind |-> "return",
                     value |-> can_add_to_territory(state, members, adjacency)]
  /\ pc' = "prim_done"
  /\ UNCHANGED <<storeVars, httpVars, valid_locks, user_seeds_inverted, guarded, scen,
                 variant, best_assignments, best_found, best_score, scenarios, gbVars,
                 remaining_units, unit_index, contiguity_failures>>

\* assignment maps whose keys need trimming and upper-casing, with a label
\* that is empty
PrimAssignmentKeys == {"CA", " ca", "NV", "UT", "FL", "HI"}
PrimLabels == {"T1", "T2", ""}
PrimAssignments ==
  UNION {[keys -> PrimLabels] : keys \in {ks \in SUBSET PrimAssignmentKeys :
                                            Cardinality(ks) <= MaxUnits}}

\* the state graph, the graph of the test suite's shape, and no graph
PrimCheckAdjacencies ==
  {STATE_ADJACENCY,
   [u \in {"CA", "NV", "UT"} |-> IF u = "CA" THEN {"NV"} ELSE IF u = "NV" THEN {"CA"} ELSE {}],
   EmptyMap}

\* check_assignments_contiguity(assignments, adjacency)
CallCheckAssignmentsContiguity ==
  /\ pc = "idle"
  /\ \E asg \in PrimAssignments, adjacency \in PrimCheckAdjacencies :
       /\ call' = [fn |-> "check_assignments_contiguity",
                   assignments |-> asg, adjacency |-> adjacency]
       /\ result' = [kind |-> "return",
                     value |-> check_assignments_contiguity(asg, adjacency)]
  /\ pc' = "prim_done"
  /\ UNCHANGED <<storeVars, httpVars, valid_locks, user_seeds_inverted, guarded, scen,
                 variant, best_assignments, best_found, best_score, scenarios, gbVars,
                 remaining_units, unit_index, contiguity_failures>>

\* the caller has the value
PrimReturn ==
  /\ pc = "prim_done"
  /\ pc' = "idle"
  /\ call' = NoArgs
  /\ result' = NoOutcome
  /\ UNCHANGED <<storeVars, httpVars, valid_locks, user_seeds_inverted, guarded, scen,
                 variant, best_assignments, best_found, best_score, scenarios, gbVars,
                 remaining_units, unit_index, contiguity_failures>>

(***************************************************************************)
(* metrics.py: fairness metrics.  A float result is kept as the fraction   *)
(* num / den of the integers the model feeds in; inf marks float("inf")    *)
(***************************************************************************)
Fraction(num, den) == [inf |-> FALSE, num |-> num, den |-> den]
Infinity == [inf |-> TRUE, num |-> 0, den |-> 1]

RECURSIVE SeqSum(_)
SeqSum(x) == IF x = <<>> THEN 0 ELSE Head(x) + SeqSum(Tail(x))

SeqMin(x) == CHOOSE v \in {x[i] : i \in 1..Len(x)} : \A i \in 1..Len(x) : v <= x[i]
SeqMax(x) == CHOOSE v \in {x[i] : i \in 1..Len(x)} : \A i \in 1..Len(x) : v >= x[i]

Abs(v) == IF v >= 0 THEN v ELSE 0 - v

\* x = x[x > 0]
Positive(v) == v > 0
\* x = x[x >= 0]
NonNegative(v) == v >= 0

\* max_min_ratio(values)
max_min_ratio(values) ==
  LET x == SelectSeq(values, Positive)
  IN IF Len(x) = 0 THEN Fraction(1, 1)
     ELSE LET min_val == SeqMin(x)
              max_val == SeqMax(x)
          IN IF min_val = 0
             THEN (IF max_val > 0 THEN Infinity ELSE Fraction(1, 1))
             ELSE Fraction(max_val, min_val)

\* np.abs(x[:, None] - x[None, :]).sum()
diff_sum(x) ==
  SeqSum([i \in 1..Len(x) |-> SeqSum([j \in 1..Len(x) |-> Abs(x[i] - x[j])])])

\* the Gini formula applied to the whole list, negative values included
gini_unfiltered(values) ==
  IF Len(values) = 0 THEN Fraction(0, 1)
  ELSE IF SeqSum(values) = 0 THEN Fraction(0, 1)
  ELSE Fraction(diff_sum(values), 2 * Len(values) * SeqSum(values))

\* gini(values): diff_sum / (2 n n mean), with mean = sum / n
gini(values) ==
  LET x == SelectSeq(values, NonNegative)
  IN IF Len(x) = 0 THEN Fraction(0, 1)
     ELSE IF SeqSum(x) = 0 THEN Fraction(0, 1)
     ELSE Fraction(diff_sum(x), 2 * Len(x) * SeqSum(x))

\* the lists handed to the fairness metrics
MetricLists == UNION {[1..n -> (0 - 1)..MaxValue] : n \in 0..MaxLen}

CallMaxMinRatio ==
  /\ pc = "idle"
  /\ \E values \in MetricLists :
       /\ call' = [fn |-> "max_min_ratio", values |-> values]
       /\ result' = [kind |-> "return", value |-> max_min_ratio(values)]
  /\ pc' = "prim_done"
  /\ UNCHANGED <<storeVars, httpVars, valid_locks, user_seeds_inverted, guarded, scen,
                 variant, best_assignments, best_found, best_score, scenarios, gbVars,
                 remaining_units, unit_index, contiguity_failures>>

CallGini ==
  /\ pc = "idle"
  /\ \E values \in MetricLists :
       /\ call' = [fn |-> "gini", values |-> values]
       /\ result' = [kind |-> "return", value |-> gini(values)]
  /\ pc' = "prim_done"
  /\ UNCHANGED <<storeVars, httpVars, valid_locks, user_seeds_inverted, guarded, scen,
                 variant, best_assignments, best_found, best_score, scenarios, gbVars,
                 remaining_units, unit_index, contiguity_failures>>

(***************************************************************************)
(* Specifications                                                          *)
(***************************************************************************)
Unloaded ==
  /\ is_loaded = FALSE
  /\ df = <<>>
  /\ state_aggregates = EmptyMap
  /\ zip_aggregates = EmptyMap

NoCallInProgress ==
  /\ request = NoRequest
  /\ response = NoResponse
  /\ first_result = NoResult
  /\ remaining_units = <<>>
  /\ unit_index = 0
  /\ contiguity_failures = <<>>
  /\ result = NoOutcome
  /\ call = NoArgs
  /\ valid_locks = EmptyMap
  /\ user_seeds_inverted = EmptyMap
  /\ guarded = <<>>
  /\ scen = 1
  /\ variant = 1
  /\ best_assignments = EmptyMap
  /\ best_found = FALSE
  /\ best_score = NoScore
  /\ scenarios = <<>>
  /\ assignments = EmptyMap
  /\ territory_anchor = EmptyMap
  /\ pq = {}
  /\ counter = 0
  /\ stuck_count = 0
  /\ iteration = 0

\* the server process before its lifespan hook has run
Init ==
  /\ csv_exists \in BOOLEAN
  /\ Unloaded
  /\ pc = "starting"
  /\ NoCallInProgress

Generate ==
  \/ GenerateZipStart
  \/ GenerateScenariosStart
  \/ GBInit
  \/ Grow
  \/ Leftover
  \/ Islands
  \/ Refine
  \/ ScoreVariant
  \/ ZipFanout

Next ==
  \/ Lifespan
  \/ Health
  \/ Config
  \/ ZipToState
  \/ OptimizeStart
  \/ Generate
  \/ OptimizeFinish
  \/ Evaluate
  \/ Complete

Spec == Init /\ [][Next]_vars

\* the optimizer module imported on its own and called directly
InitGen ==
  /\ csv_exists = FALSE
  /\ Unloaded
  /\ pc = "idle"
  /\ NoCallInProgress

NextGen ==
  \/ CallGenerateScenarios
  \/ CallGenerateZip
  \/ Generate
  \/ Return

SpecGen == InitGen /\ [][NextGen]_vars

\* the optimizer module called twice in a row with the same arguments
NextTwice ==
  \/ CallFirst
  \/ GenerateScenariosStart
  \/ GBInit
  \/ Grow
  \/ Leftover
  \/ Islands
  \/ Refine
  \/ ScoreVariant
  \/ CallAgain
  \/ ReturnSecond

SpecTwice == InitGen /\ [][NextTwice]_vars

\* the greedy balancers called directly
NextGreedy ==
  \/ CallGreedy
  \/ GreedyPlace
  \/ GreedyFinish
  \/ GreedyReturn

SpecGreedy == InitGen /\ [][NextGreedy]_vars

\* local_refinement_pass called directly
NextRefine ==
  \/ CallLocalRefinementPass
  \/ Refine
  \/ RefineFinish
  \/ RefineReturn

SpecRefine == InitGen /\ [][NextRefine]_vars

\* geographic_balanced called directly
NextGrow ==
  \/ CallGeographicBalanced
  \/ GBInit
  \/ Grow
  \/ Leftover
  \/ Islands
  \/ GBFinish
  \/ GBReturn

SpecGrow == InitGen /\ [][NextGrow]_vars

\* the pure functions of optimizer.py and metrics.py called directly
NextPrim ==
  \/ CallIsTerritoryContiguous
  \/ CallCanAddToTerritory
  \/ CallCheckAssignmentsContiguity
  \/ CallMaxMinRatio
  \/ CallGini
  \/ PrimReturn

SpecPrim == InitGen /\ [][NextPrim]_vars

(***************************************************************************)
(* Properties                                                              *)
(***************************************************************************)
ReturnedBy(fn) == pc = "returned" /\ call.fn = fn

Scenarios == {scenarios[i] : i \in 1..Len(scenarios)}

\* C2: every scenario returned by generate_scenarios assigns every unit of
\* the aggregate set to a territory.
C2_CompleteAssignment ==
  ReturnedBy("generate_scenarios") =>
    \A sc \in Scenarios : DOMAIN sc.assignments = DOMAIN call.aggregates

\* C3: in every scenario returned by generate_scenarios each lock entry with
\* a known unit and a label in T1..Tk is assigned to exactly that territory,
\* whatever the seed map says about the unit.
C3_LocksHonoured ==
  ReturnedBy("generate_scenarios") =>
    \A sc \in Scenarios :
      \A u \in LockUnits(call.locked_assignments, DOMAIN call.aggregates, call.k) :
        u \in DOMAIN sc.assignments /\ sc.assignments[u] = call.locked_assignments[u]

\* C4: in every scenario returned by generate_zip_scenarios_via_states each
\* locked ZIP with a parent state and a label in T1..Tk is assigned to its
\* locked territory, also when several locked ZIPs share one parent state.
C4_ZipLocksHonoured ==
  ReturnedBy("generate_zip_scenarios_via_states") =>
    \A sc \in Scenarios :
      \A z \in DOMAIN call.zip_locked_assignments :
        (/\ z \in Range(call.zip_keys)
         /\ z \in DOMAIN call.zip_to_state
         /\ call.zip_to_state[z] \in DOMAIN call.state_aggregates
         /\ call.zip_locked_assignments[z] \in TerritoryIds(call.k))
        => (z \in DOMAIN sc.assignments
            /\ sc.assignments[z] = call.zip_locked_assignments[z])

\* geographic_balanced has just returned: its result is in assignments
GBReturned ==
  \/ pc = "refine" /\ iteration = 0
  \/ pc = "score" /\ RefineOrScore = "score"

Symmetric(adjacency, units) ==
  \A u, v \in units : v \in Adj(adjacency, u) <=> u \in Adj(adjacency, v)

MainlandConnected ==
  \/ mainland_units = {}
  \/ LET first == CHOOSE u \in mainland_units : TRUE
     IN Reach({first}, {first}, mainland_units, call.adjacency) = mainland_units

AllContiguous(asg) ==
  \A t \in TerritoryIds(K) :
    is_territory_contiguous(territory_states(asg, t), call.adjacency)

\* C5 as stated: with a symmetric adjacency and a connected mainland every
\* territory returned by geographic_balanced is contiguous, for any k, any
\* metric values and any lock map.
C5_ContiguousAnyLocks ==
  (GBReturned /\ Symmetric(call.adjacency, Units) /\ MainlandConnected)
    => AllContiguous(assignments)

\* C5 without locks: with a symmetric adjacency and a connected mainland every
\* territory returned by geographic_balanced is contiguous when the lock map
\* it is given is empty, for any k and any metric values.
C5_ContiguousNoLocks ==
  (GBReturned /\ Symmetric(call.adjacency, Units) /\ MainlandConnected
   /\ DOMAIN valid_locks = {})
    => AllContiguous(assignments)

\* a three-unit mainland split over two territories without locks
C5_Witness ==
  /\ GBReturned
  /\ Units = {"CA", "NV", "UT"}
  /\ K = 2
  /\ DOMAIN valid_locks = {}
  /\ DOMAIN assignments = Units
  /\ \E t \in TerritoryIds(K) : Cardinality(territory_states(assignments, t)) = 2

\* C6: every territory label in every assignment map returned by
\* generate_scenarios and generate_zip_scenarios_via_states is one of T1..Tk.
C6_LabelsInRange ==
  pc = "returned" =>
    \A sc \in Scenarios :
      \A u \in DOMAIN sc.assignments : sc.assignments[u] \in TerritoryIds(call.k)

\* a ZIP scenario with ZIPs taken from their states and two orphan ZIPs
C6_Witness ==
  /\ ReturnedBy("generate_zip_scenarios_via_states")
  /\ Len(scenarios) = 2
  /\ \A sc \in Scenarios :
       /\ DOMAIN sc.assignments = Range(call.zip_keys)
       /\ sc.assignments["99998"] = "T1"
       /\ sc.assignments["99999"] = "T2"
       /\ sc.assignments["90001"] \in TerritoryIds(call.k)

Responded(endpoint) == pc = "responded" /\ request.endpoint = endpoint

\* the scenarios with statistics carried by a 200 response
ScoredScenarios ==
  IF request.endpoint = "/evaluate" THEN {response.scenario}
  ELSE {response.scenarios[i] : i \in 1..Len(response.scenarios)}

\* C1: the member lists of T1..Tk used for the per-territory statistics and
\* unassigned_units partition the aggregate key set: every aggregate unit is
\* in exactly one of them, never in two and never omitted.
C1_StatsPartition ==
  ((Responded("/evaluate") \/ Responded("/optimize")) /\ response.status = 200) =>
    \A sc \in ScoredScenarios :
      LET members(t) == sc.territory_stats[t].unit_ids
          tids == DOMAIN sc.territory_stats
      IN /\ UNION {members(t) : t \in tids} \cup sc.unassigned_units
              = DOMAIN RequestAggregates(request)
         /\ \A t \in tids : members(t) \cap sc.unassigned_units = {}
         /\ \A t1, t2 \in tids : t1 # t2 => members(t1) \cap members(t2) = {}

\* C7: without the CSV file at startup the store is never loaded, every
\* data endpoint answers 503 and /health answers 200 with status ok.
C7_UnloadedForever ==
  ~ csv_exists =>
    /\ ~ is_loaded
    /\ pc = "responded" =>
         IF request.endpoint = "/health"
         THEN response = [status |-> 200, body |-> "ok"]
         ELSE response.status = 503

C7_Witness ==
  /\ ~ csv_exists
  /\ Responded("/optimize")
  /\ request.primary_metric = PRIMARY_DEFAULT
  /\ response.status = 503

\* a map entry with a known unit and a label outside T1..Tk
KnownUnitBadLabel(asg) ==
  \E u \in DOMAIN asg :
    /\ u \in DOMAIN RequestAggregates(request)
    /\ \A i \in 1..request.k : asg[u] # Tid(i)

\* any map entry with a label outside T1..Tk
AnyBadLabel(asg) ==
  \E u \in DOMAIN asg : \A i \in 1..request.k : asg[u] # Tid(i)

MetricsKnown ==
  /\ request.primary_metric \in BALANCING_METRICS
  /\ request.secondary_metric \in BALANCING_METRICS

NotGenerated == call = NoArgs /\ scenarios = <<>>

\* C8: /optimize checks, in this order, that the store is loaded (503), that
\* both metrics are known (400), that the aggregate set is not empty (400)
\* and that the lock and seed labels are valid (400); a rejected request
\* never reaches the scenario generator.
C8_CheckOrder ==
  Responded("/optimize") =>
    /\ ~ is_loaded => response = HttpError(503, "not_loaded")
    /\ (is_loaded /\ ~ MetricsKnown) =>
         /\ response.status = 400
         /\ response.detail \in {"primary_metric", "secondary_metric"}
    /\ (is_loaded /\ MetricsKnown /\ DOMAIN RequestAggregates(request) = {}) =>
         response = HttpError(400, "no_data")
    /\ (/\ is_loaded /\ MetricsKnown /\ DOMAIN RequestAggregates(request) # {}
        /\ (\/ KnownUnitBadLabel(request.locked_assignments)
            \/ KnownUnitBadLabel(request.seed_assignments))) =>
         /\ response.status = 400
         /\ response.detail \in {"locked_assignments", "seed_assignments"}
    /\ response.status \in {400, 503} => NotGenerated
    /\ response.status \notin {400, 503} => ~ NotGenerated

\* an unknown metric, an empty aggregate set and an invalid lock label at once
C8_Witness ==
  /\ Responded("/optimize")
  /\ is_loaded
  /\ request.primary_metric = "Revenue"
  /\ request.country_filter = "ca"
  /\ request.locked_assignments = [u \in {"CA"} |-> "T9"]
  /\ response = HttpError(400, "primary_metric")
  /\ NotGenerated

\* C9 as stated: with data loaded, known metrics and a non-empty aggregate
\* set, /optimize answers 400 if any lock or seed entry names a label outside
\* T1..Tk.
C9_AnyEntryRejected ==
  (/\ Responded("/optimize") /\ is_loaded /\ MetricsKnown
   /\ DOMAIN RequestAggregates(request) # {}
   /\ (AnyBadLabel(request.locked_assignments) \/ AnyBadLabel(request.seed_assignments)))
  => response.status = 400

\* C9 amended: with data loaded, known metrics and a non-empty aggregate set,
\* /optimize answers 400 exactly when some lock or seed entry whose unit is in
\* the aggregate set names a label outside T1..Tk; entries with an unknown
\* unit are ignored whatever their label.
C9_KnownEntryRejected ==
  (/\ Responded("/optimize") /\ is_loaded /\ MetricsKnown
   /\ DOMAIN RequestAggregates(request) # {})
  => (response.status = 400
        <=> (\/ KnownUnitBadLabel(request.locked_assignments)
             \/ KnownUnitBadLabel(request.seed_assignments)))

\* a request with an ignored unknown unit and a rejected seed label
C9_Witness ==
  /\ Responded("/optimize")
  /\ is_loaded
  /\ "ZZ" \in DOMAIN request.locked_assignments
  /\ request.locked_assignments["ZZ"] = "T1"
  /\ ~ KnownUnitBadLabel(request.locked_assignments)
  /\ KnownUnitBadLabel(request.seed_assignments)
  /\ response = HttpError(400, "seed_assignments")

\* C10: an assignment map given to /evaluate that names a label outside
\* T1..Tk is rejected with 400 instead of being scored.
C10_EvaluateRejectsLabels ==
  (/\ Responded("/evaluate") /\ is_loaded /\ MetricsKnown
   /\ DOMAIN RequestAggregates(request) # {}
   /\ AnyBadLabel(request.assignments))
  => response.status = 400

\* the territories of an assignment map whose (trimmed, upper-cased) units
\* are not contiguous in the state adjacency graph
NonContiguousIn(asg) ==
  {t \in {asg[u] : u \in DOMAIN asg} :
     ~ is_territory_contiguous({StripUpper(u) : u \in {v \in DOMAIN asg : asg[v] = t}},
                               STATE_ADJACENCY)}

\* an /optimize request at state granularity was answered after generation and
\* one of the generated scenarios has a non-contiguous territory
OptimizeFoundNonContiguous ==
  /\ Responded("/optimize")
  /\ request.granularity = "state"
  /\ \E i \in 1..Len(scenarios) : NonContiguousIn(scenarios[i].assignments) # {}

\* C11: when a generated scenario of /optimize has a non-contiguous
\* territory, force_contiguity makes the whole request fail with 422 and no
\* scenario is returned; without it the response is 200, carries every
\* generated scenario and a warning naming the scenario's non-contiguous
\* territories.
C11_ForceContiguity ==
  OptimizeFoundNonContiguous =>
    IF request.force_contiguity
    THEN response.status = 422 /\ "scenarios" \notin DOMAIN response
    ELSE /\ response.status = 200
         /\ Len(response.scenarios) = Len(scenarios)
         /\ \A i \in 1..Len(scenarios) :
              /\ response.scenarios[i].id = scenarios[i].id
              /\ response.scenarios[i].assignments = scenarios[i].assignments
              /\ NonContiguousIn(scenarios[i].assignments) # {} =>
                   [kind |-> "non_contiguous", scenario |-> scenarios[i].id,
                    territories |-> NonContiguousIn(scenarios[i].assignments)]
                     \in response.warnings

\* a forced request refused because a generated scenario is not contiguous
C11_Witness ==
  /\ OptimizeFoundNonContiguous
  /\ request.force_contiguity
  /\ response = HttpError(422, "contiguity")

\* an unforced request answered with the non-contiguous scenarios and a warning
C11_WitnessWarned ==
  /\ OptimizeFoundNonContiguous
  /\ ~ request.force_contiguity
  /\ response.status = 200
  /\ \E w \in response.warnings : w.kind = "non_contiguous"

\* C12: at ZIP granularity every scenario answered by /optimize or /evaluate
\* reports contiguity_checked = FALSE, contiguity_ok = TRUE and no
\* non-contiguous territory, whatever its assignment map is.
C12_ZipContiguityUnavailable ==
  ((Responded("/optimize") \/ Responded("/evaluate"))
   /\ request.granularity = "zip" /\ response.status = 200) =>
    \A sc \in ScoredScenarios :
      /\ sc.contiguity_checked = FALSE
      /\ sc.contiguity_ok = TRUE
      /\ sc.non_contiguous_territories = {}

\* a ZIP-granularity evaluation of a map that puts two ZIPs in one territory
C12_Witness ==
  /\ Responded("/evaluate")
  /\ request.granularity = "zip"
  /\ response.status = 200
  /\ \E z1, z2 \in DOMAIN response.scenario.assignments :
       /\ z1 # z2
       /\ response.scenario.assignments[z1] = response.scenario.assignments[z2]
  /\ response.scenario.contiguity_checked = FALSE

\* C13: generate_scenarios is deterministic: a second call with the arguments
\* of the first returns the same assignment maps for the primary and the
\* secondary scenario.
C13_Deterministic ==
  (pc = "returned" /\ call.fn = "generate_scenarios" /\ first_result # NoResult) =>
    /\ Len(scenarios) = Len(first_result.scenarios)
    /\ \A i \in 1..Len(scenarios) :
         scenarios[i].assignments = first_result.scenarios[i].assignments

\* the members of territory tid when the placement loop reached turn i:
\* its locked units and the units placed in it on earlier turns
MembersAtTurn(i, tid) ==
  {u \in DOMAIN assignments :
     /\ assignments[u] = tid
     /\ \A j \in i..Len(remaining_units) : remaining_units[j] # u}

AdmittedAtTurn(i, tid) ==
  can_add_to_territory(remaining_units[i], MembersAtTurn(i, tid), call.adjacency)

GreedyDone == pc = "greedy_done" /\ call.fn \in greedy_functions

\* C14: with require_contiguity a greedy balancer either raises ValueError or
\* returns an assignment in which every unlocked unit was admitted by
\* can_add_to_territory into its territory at its turn; when some unit is
\* admitted by none of the k territories at its turn the call raises.
C14_GreedyFailsLoudly ==
  (GreedyDone /\ call.require_contiguity) =>
    /\ result.kind \in {"raise", "return"}
    /\ result.kind = "return" =>
         /\ result.value = assignments
         /\ \A i \in 1..Len(remaining_units) :
              AdmittedAtTurn(i, assignments[remaining_units[i]])
    /\ (\E i \in 1..Len(remaining_units) :
          \A tid \in TerritoryIds(call.k) : ~ AdmittedAtTurn(i, tid))
         => result = [kind |-> "raise", error |-> "ValueError"]

\* one territory, two units that are not adjacent: the call raises
C14_Witness ==
  /\ GreedyDone
  /\ call.fn = "primary_balanced"
  /\ call.require_contiguity
  /\ call.k = 1
  /\ DOMAIN call.aggregates = {"CA", "FL"}
  /\ DOMAIN assignments = {"CA", "FL"}
  /\ result = [kind |-> "raise", error |-> "ValueError"]

PrimDone(fn) == pc = "prim_done" /\ call.fn = fn

\* b can be reached from a along neighbour edges that stay inside M
ReachableWithin(M, adjacency, a, b) ==
  \E n \in 1..Cardinality(M) :
    \E path \in [1..n -> M] :
      /\ path[1] = a
      /\ path[n] = b
      /\ \A i \in 1..(n - 1) : path[i + 1] \in Adj(adjacency, path[i])

ConnectedFrom(M, adjacency, a) == \A b \in M : ReachableWithin(M, adjacency, a, b)

\* at most one unit, islands only, or a mainland part that is connected from
\* one of its members
ContiguousByDefinition(T, adjacency) ==
  \/ Cardinality(T) <= 1
  \/ T \ ISLAND_STATES = {}
  \/ \E a \in T \ ISLAND_STATES : ConnectedFrom(T \ ISLAND_STATES, adjacency, a)

\* C15: with a non-empty adjacency map check_assignments_contiguity returns
\* checked = TRUE, a non_contiguous list holding exactly the territory labels
\* whose trimmed, upper-cased unit set is not contiguous (entries with an
\* empty label belong to no territory), and ok = TRUE iff that list is empty.
C15_ReportsExactlyFailures ==
  (PrimDone("check_assignments_contiguity") /\ DOMAIN call.adjacency # {}) =>
    LET asg      == call.assignments
        labels   == {asg[u] : u \in DOMAIN asg} \ {""}
        units(t) == {StripUpper(u) : u \in {v \in DOMAIN asg : asg[v] = t}}
    IN /\ result.value.checked = TRUE
       /\ result.value.non_contiguous =
            {t \in labels : ~ ContiguousByDefinition(units(t), call.adjacency)}
       /\ result.value.ok = (result.value.non_contiguous = {})

\* T1 holds CA (written " ca") and UT, which are not neighbours; T2 holds NV
C15_Witness ==
  /\ PrimDone("check_assignments_contiguity")
  /\ call.adjacency = STATE_ADJACENCY
  /\ call.assignments = (" ca" :> "T1") @@ ("UT" :> "T1") @@ ("NV" :> "T2")
  /\ result.value = [checked |-> TRUE, non_contiguous |-> {"T1"}, ok |-> FALSE]

C17_AdmissionRule ==
  PrimDone("can_add_to_territory") =>
    LET c == call.state
        S == call.territory_states
    IN /\ result.value =
            (\/ S = {}
             \/ /\ c \notin ISLAND_STATES
                /\ S \cap ISLAND_STATES = {}
                /\ \E n \in S : n \in Adj(call.adjacency, c))
       /\ (c \in ISLAND_STATES /\ S # {}) => result.value = FALSE

\* the island is refused by a territory that holds one of its listed neighbours
C17_Witness ==
  /\ PrimDone("can_add_to_territory")
  /\ call.state = "HI"
  /\ call.territory_states = {"CA"}
  /\ call.adjacency["HI"] = {"CA", "UT"}
  /\ result.value = FALSE

\* the values of a list, as a set
Elements(x) == {x[i] : i \in 1..Len(x)}

\* two results are the same number
SameNumber(a, b) ==
  \/ a.inf /\ b.inf
  \/ ~ a.inf /\ ~ b.inf /\ a.num * b.den = b.num * a.den

\* C18: max_min_ratio returns +inf for every list that holds a zero and a
\* positive value, 1.0 when the list holds no positive value, and max/min
\* otherwise.
C18_MaxMinRatio ==
  PrimDone("max_min_ratio") =>
    LET x   == call.values
        pos == {v \in Elements(x) : v > 0}
    IN IF pos = {} THEN SameNumber(result.value, Fraction(1, 1))
       ELSE IF 0 \in Elements(x) THEN result.value.inf
       ELSE SameNumber(result.value,
                       Fraction(CHOOSE v \in pos : \A w \in pos : w <= v,
                                CHOOSE v \in pos : \A w \in pos : v <= w))

\* C19: gini(values) lies in [0, 1] for every list; negative values are
\* discarded, the result is 0 when nothing remains or the mean is zero, and
\* the sum of the pairwise absolute differences never exceeds 2 n n mean.
C19_GiniInUnitInterval ==
  PrimDone("gini") =>
    LET x == SelectSeq(call.values, NonNegative)
        g == result.value
    IN /\ ~ g.inf
       /\ g.den > 0
       /\ 0 <= g.num
       /\ g.num <= g.den
       /\ (Len(x) = 0 \/ SeqSum(x) = 0) => g.num = 0
       /\ g = gini(x)
       /\ diff_sum(x) <= 2 * Len(x) * SeqSum(x)

\* a list with a negative value and two unequal others: the index is 1/2
C19_Witness ==
  /\ PrimDone("gini")
  /\ call.values = <<0 - 1, 0, 2>>
  /\ result.value = Fraction(4, 8)


C20_WitnessOptimize ==
  /\ Responded("/optimize")
  /\ request.country_filter \in {"ca", "us"}
  /\ response.status = 200
  /\ RequestAggregates(request) # state_aggregates
  /\ state_aggregates = build_unit_aggregates(df, "state")


\* the number of orphan ZIPs that come before place p of the ZIP keys
OrphansBefore(state_assignments, p) ==
  Cardinality({j \in 1..(p - 1) :
                 \/ call.zip_keys[j] \notin DOMAIN call.zip_to_state
                 \/ call.zip_to_state[call.zip_keys[j]] \notin DOMAIN state_assignments})

\* C21: in every scenario returned by generate_zip_scenarios_via_states the
\* assignment map has exactly the ZIP keys as its domain; a ZIP whose parent
\* state is assigned in the state scenario gets that state's territory, and
\* the i-th orphan ZIP in iteration order (from 0) gets T((i mod k)+1).
C21_ZipFanout ==
  [][pc = "zip_fanout" =>
       /\ Len(scenarios') = Len(scenarios)
       /\ \A i \in 1..Len(scenarios) :
            LET state_assignments == scenarios[i].assignments
                zip_assignments   == scenarios'[i].assignments
            IN /\ DOMAIN zip_assignments = {call.zip_keys[p] : p \in 1..Len(call.zip_keys)}
               /\ \A p \in 1..Len(call.zip_keys) :
                    LET z == call.zip_keys[p]
                    IN IF z \in DOMAIN call.zip_to_state
                          /\ call.zip_to_state[z] \in DOMAIN state_assignments
                       THEN zip_assignments[z] = state_assignments[call.zip_to_state[z]]
                       ELSE zip_assignments[z] =
                              Tid((OrphansBefore(state_assignments, p) % call.k) + 1)]_vars

\* two territories and three orphan ZIPs, one of them with an unassigned
\* parent state: the third orphan wraps round to T1, and the two ZIPs of
\* California share a territory
C21_Witness ==
  /\ ReturnedBy("generate_zip_scenarios_via_states")
  /\ call.k = 2
  /\ Len(scenarios) = 2
  /\ \A sc \in Scenarios :
       /\ sc.assignments["99998"] = "T1"
       /\ sc.assignments["99999"] = "T2"
       /\ sc.assignments["00000"] = "T1"
       /\ sc.assignments["90001"] = sc.assignments["90002"]
  /\ \E sc \in Scenarios : sc.assignments["89101"] # sc.assignments["90001"]


\* local_refinement_pass has returned to a direct caller
Refined == pc = "refine_done"

\* the map the caller passed to local_refinement_pass
RefineInput == first_result.scenarios[1].assignments

\* C22: local_refinement_pass keeps every territory contiguous: when every
\* territory of the input assignment satisfies is_territory_contiguous, every
\* territory of the returned assignment does too, for every adjacency map.
C22_RefineKeepsContiguity ==
  (Refined /\ AllContiguous(RefineInput)) => AllContiguous(result.value)


\* the frontier entries whose unit is still an unassigned mainland unit
LiveEntries == {e \in pq : e.unit \in unassigned_mainland(assignments)}

\* the territories that have a live candidate on the frontier queue
LiveTids == {e.tid : e \in LiveEntries}

\* the entry the heap gives first among the live entries of one territory
FirstLive(t) ==
  CHOOSE e \in LiveEntries : e.tid = t /\ \A f \in LiveEntries : f.tid = t => ~ EntryLess(f, e)

NextToTerritory(asg, t, u) ==
  \E m \in territory_states(asg, t) : u \in Adj(call.adjacency, m)

\* C24: in geographic_balanced every (territory, unit) entry on the frontier
\* queue has its unit in the adjacency list of a current member of that
\* territory, and every unit the main loop assigns was unassigned and is a
\* neighbour of a unit the receiving territory already had.
C24_FrontierIsAdjacent ==
  [][/\ \A e \in pq' : NextToTerritory(assignments', e.tid, e.unit)
     /\ (pc = "grow" /\ assignments' # assignments) =>
          \E u \in mainland_units \ DOMAIN assignments : \E t \in TerritoryIds(K) :
            /\ assignments' = [v \in DOMAIN assignments \cup {u} |->
                                 IF v = u THEN t ELSE assignments[v]]
            /\ NextToTerritory(assignments, t, u)]_vars

\* the main loop has grown one of two seeded territories by one unit, and
\* units of the frontier are still waiting
C24_Witness ==
  /\ pc = "grow"
  /\ call.fn = "geographic_balanced"
  /\ DOMAIN valid_locks = {}
  /\ K = 2
  /\ Cardinality(DOMAIN assignments) = 3
  /\ \E u \in DOMAIN assignments :
       /\ \A t \in DOMAIN territory_anchor : territory_anchor[t] # u
       /\ NextToTerritory([v \in DOMAIN assignments \ {u} |-> assignments[v]], assignments[u], u)
  /\ LiveEntries # {}


\* the max/min ratio of the positive territory loads of an assignment
RatioOf(asg) == compute_max_min_ratio(compute_loads(asg))

C26_NoTerritoryEmptied ==
  Refined =>
    \A t \in TerritoryIds(K) :
      territory_states(RefineInput, t) # {} => territory_states(result.value, t) # {}


\* geographic_balanced has returned to a direct caller
Grown == pc = "gb_done"

\* C27: with an empty lock map and at least k mainland units,
\* geographic_balanced returns an assignment in which each of T1..Tk has at
\* least one unit.
C27_EveryTerritoryPopulated ==
  (Grown /\ DOMAIN call.locked_assignments = {} /\ Cardinality(mainland_units) >= K) =>
    \A t \in TerritoryIds(K) : territory_states(result.value, t) # {}

\* three territories over exactly three mainland units, one of them without
\* a centroid: seed selection served two territories and the force-assign
\* step the third
C27_Witness ==
  /\ Grown
  /\ DOMAIN call.locked_assignments = {}
  /\ K = 3
  /\ Units = {"CA", "NV", "ZZ"}
  /\ \A t \in TerritoryIds(K) : Cardinality(territory_states(result.value, t)) = 1
  /\ result.value["ZZ"] = "T3"


\* C28: the two contiguity primitives agree on growth by one unit: for a
\* symmetric adjacency map and a non-empty territory S without islands that
\* satisfies is_territory_contiguous, can_add_to_territory(c, S) = TRUE
\* implies is_territory_contiguous(S + {c}) = TRUE.
C28_AdmissionKeepsContiguity ==
  (/\ PrimDone("can_add_to_territory")
   /\ Symmetric(call.adjacency, PrimUnits)
   /\ call.territory_states # {}
   /\ call.territory_states \cap ISLAND_STATES = {}
   /\ is_territory_contiguous(call.territory_states, call.adjacency)
   /\ result.value = TRUE) =>
    is_territory_contiguous(call.territory_states \cup {call.state}, call.adjacency)

\* Utah is admitted to {CA, NV} through its one neighbour Nevada, and the
\* three units form a chain
C28_Witness ==
  /\ PrimDone("can_add_to_territory")
  /\ Symmetric(call.adjacency, PrimUnits)
  /\ call.territory_states = {"CA", "NV"}
  /\ call.state = "UT"
  /\ "UT" \notin Adj(call.adjacency, "CA")
  /\ is_territory_contiguous(call.territory_states, call.adjacency)
  /\ result.value = TRUE
  /\ ContiguousByDefinition({"CA", "NV", "UT"}, call.adjacency)


\* C29: for a scored assignment map whose labels all lie in T1..Tk, the
\* account counts of the k territory statistics add up to the account count
\* of the assigned aggregate units, and no unit listed as unassigned is
\* among the members of a territory.
C29_AccountsCountedOnce ==
  ((Responded("/evaluate") \/ Responded("/optimize")) /\ response.status = 200) =>
    \A sc \in ScoredScenarios :
      (\A u \in DOMAIN sc.assignments : sc.assignments[u] \in TerritoryIds(request.k)) =>
        LET aggregates == RequestAggregates(request)
            assigned   == DOMAIN sc.assignments \cap DOMAIN aggregates
            tids       == TerritoryIds(request.k)
        IN /\ SumOver([t \in tids |-> sc.territory_stats[t].account_count], tids)
                = SumOver([u \in assigned |-> aggregates[u].account_count], assigned)
           /\ \A u \in sc.unassigned_units :
                \A t \in tids : u \notin sc.territory_stats[t].unit_ids

\* /evaluate scored California alone in T1: its three accounts are the whole
\* count, and the other states are listed as unassigned
C29_Witness ==
  /\ Responded("/evaluate")
  /\ response.status = 200
  /\ request.granularity = "state"
  /\ request.country_filter = ""
  /\ DOMAIN response.scenario.assignments = {"CA"}
  /\ response.scenario.assignments["CA"] = "T1"
  /\ response.scenario.territory_stats["T1"].account_count = 3
  /\ response.scenario.territory_stats["T2"].account_count = 0
  /\ "NV" \in response.scenario.unassigned_units

\* The first step of a call, seen on pc: GBInit is the only step of NextGrow
\* that leaves "gb_init", and it is enabled in every state that is there
GBInitStep == pc = "gb_init" /\ pc' \in {"grow", "leftover", "islands", "refine", "score"}

\* geographic_balanced called directly, with the call running to its return:
\* the interpreter keeps executing a call once it has started
NextGrowLive ==
  \/ CallGeographicBalancedToReturn
  \/ GBInit
  \/ Grow
  \/ Leftover
  \/ Islands
  \/ GBFinish
  \/ GBReturn

SpecGrowLive ==
  /\ InitGen
  /\ [][NextGrowLive]_vars
  /\ WF_pc(GBInitStep)
  /\ WF_vars(Grow \/ Leftover \/ Islands \/ GBFinish)

\* The units of the island loop that have no territory yet
UnassignedIslands(asg) == island_units \ DOMAIN asg

====
